---- MODULE Spec2Model ----
(***************************************************************************)
(* Model of the staged-content secret-sanitization and autonomous-commit   *)
(* pipeline of Vibe-Wrapper: workflows.auto_commit, the helpers of         *)
(* RepoHelpers.py it drives, and the dispatcher step of executer.main.     *)
(*                                                                         *)
(* Reading of the sources.  The files of the repository were committed by  *)
(* the pipeline itself, so a number of identifiers in them appear as the   *)
(* redaction token `api_key`.  Each such call is read as the function the  *)
(* surrounding code names: workflows.py imports, in this order,            *)
(* fetch_from_remote, anything_staged, sanitize_staged_secrets_in_index,   *)
(* llm_scan_staged_secrets_in_index and generate_commit_message (line 8),  *)
(* and calls them at lines 45, 59, 67, 82 and 104; line 100 is read as     *)
(* `return_message += ...` like line 96.  In RepoHelpers.py lines 212 and  *)
(* 400 are _blob_mode_from_index, 326 passes max_chars_per_call, 351 is    *)
(* _extract_findings_from_response, 381 is _apply_replacements_by_ranges,  *)
(* 608 is _staged_name_status and 613 collect_project_context_dynamic.     *)
(*                                                                         *)
(* Abstraction of file content.  A blob is a finite sequence of lexemes:   *)
(*   "w"  an ordinary word                                                 *)
(*   "S"  a secret in a shape the regular expressions of RepoHelpers match *)
(*   "L"  a secret in no such shape (only the reasoning service flags it)  *)
(*   "Z"  a NUL byte                                                       *)
(*   "K"  the redaction token api_key                                      *)
(*   "Q"  the redaction token api_key_llm                                  *)
(* Offsets of the semantic pass count lexemes.  A blob id is the blob's    *)
(* content (git's object store is content-addressed).                      *)
(***************************************************************************)
EXTENDS Integers, Sequences, FiniteSets, TLC

VARIABLES
    worktree,        \* path -> NoFile or [data, mode]: the working tree
    index,           \* path -> NoFile or [oid, mode]: the staging area
    commits,         \* sequence of commits [tree, message]; HEAD is the last
    remotes,         \* sequence of remote names (repo.remotes)
    diffErr,         \* git diff --cached raises while HEAD is unborn
    pc,              \* position of the current invocation
    runNo,           \* number of invocations started
    edits,           \* number of working-tree edits made between invocations
    repo_path,       \* auto_commit's argument
    return_message,  \* auto_commit's return_message, as a sequence of parts
    sanitized,       \* result of the regex pass
    llm_results,     \* result of the semantic pass
    commit_message,  \* result of generate_commit_message
    result,          \* the dict auto_commit returned
    exc,             \* the exception that escaped auto_commit
    reported,        \* the outcome the dispatcher holds after the action
    calls,           \* collaborator operations attempted by this invocation
    regexCalls,      \* <<path, text>> pairs given to _sanitize_text
    llmCalls,        \* <<path, chunk>> pairs sent to the reasoning service
    fetchOutcome,    \* what remote.fetch() did in this invocation
    pushOutcome,     \* what remote.push() did in this invocation
    head0,           \* number of commits when the invocation started
    wt0,             \* working tree when the invocation started
    staged0,         \* index right after stage-all
    todo,            \* staged paths the running pass has still to visit
    faults,          \* collaborator failures that have happened so far
    prev,            \* summary of the previous invocation
    probe            \* a helper function under examination: its arguments
                     \* and, once applied, its results

vars == << worktree, index, commits, remotes, diffErr, pc, runNo, edits,
           repo_path, return_message, sanitized, llm_results, commit_message,
           result, exc, reported, calls, regexCalls, llmCalls, fetchOutcome,
           pushOutcome, head0, wt0, staged0, todo, faults, prev, probe >>

repoVars == << worktree, index, commits, remotes, diffErr >>

(***************************************************************************)
(* Bounds of the model.                                                    *)
(***************************************************************************)
MaxRuns == 2         \* invocations of auto_commit in one behaviour
MaxEdits == 1        \* working-tree edits between invocations
MaxFaults == 2       \* collaborator failures in one behaviour
ChunkMax == 2        \* stands for max_chars_per_call (60000), in lexemes
ChunkOverlap == 1    \* stands for the overlap (200), in lexemes
MaxTextLen == 4      \* lexemes of a text given to a helper on its own
MaxRanges == 2       \* ranges given to _apply_replacements_by_ranges
MaxChunks == 6       \* chunks after which the loop of _chunk_text is left alone

Paths == {"f1", "f2"}
PathOrder == << "f1", "f2" >>     \* git lists paths in sorted order
NoFile == [absent |-> TRUE]
NoPath == "None"
NoExc == "none"
NoDict == [pending |-> TRUE]
NoMessage == << >>
NoProbe == [f |-> "none"]

Range(s) == { s[i] : i \in DOMAIN s }

RECURSIVE SumWidth(_, _)
SumWidth(w, s) == IF s = << >> THEN 0 ELSE w[Head(s)] + SumWidth(w, Tail(s))

(***************************************************************************)
(* The repository.                                                         *)
(***************************************************************************)
EmptyTree == [p \in Paths |-> NoFile]

\* The tree of HEAD; the empty tree while no commit exists.
HeadTree(cs) == IF cs = << >> THEN EmptyTree ELSE cs[Len(cs)].tree

\* git add -A: every path's entry becomes the working-tree file, a removed
\* file's entry is dropped (workflows.py:56).
StageAll(wt) ==
    [p \in Paths |->
        IF wt[p] = NoFile THEN NoFile
        ELSE [oid |-> wt[p].data, mode |-> wt[p].mode]]

RECURSIVE FilterSeq(_, _)
FilterSeq(s, keep) ==
    IF s = << >> THEN << >>
    ELSE (IF Head(s) \in keep THEN << Head(s) >> ELSE << >>)
         \o FilterSeq(Tail(s), keep)

\* git diff --cached --name-only: the paths whose entry differs from HEAD.
DiffCachedNames(idx, cs) ==
    FilterSeq(PathOrder, { p \in Paths : idx[p] # HeadTree(cs)[p] })

\* repo.index.entries.keys()
IndexEntries(idx) == FilterSeq(PathOrder, { p \in Paths : idx[p] # NoFile })

\* The diff raises only in a repository without a commit (the case the
\* handlers at RepoHelpers.py:100 and :158 are written for).
DiffRaises(cs, derr) == derr /\ cs = << >>

\* anything_staged with the fallback of line 102 taken always.
anything_staged_entries(idx, cs, derr) == IndexEntries(idx) # << >>

anything_staged(idx, cs, derr) ==
    IF DiffRaises(cs, derr) THEN IndexEntries(idx) # << >>
    ELSE DiffCachedNames(idx, cs) # << >>

\* The staged paths both passes iterate over (RepoHelpers.py:155-160, 292-295).
StagedPaths(idx, cs, derr) ==
    IF DiffRaises(cs, derr) THEN IndexEntries(idx) ELSE DiffCachedNames(idx, cs)

HasOrigin(rem) == \E i \in DOMAIN rem : rem[i] = "origin"

\* repo.remotes.origin, else the first remote.
PickRemote(rem) == IF HasOrigin(rem) THEN "origin" ELSE rem[1]

FetchOutcomes == {"ok", "GitCommandError", "OtherError"}

\* fetch_from_remote: False without a remote or when the fetch raises
\* GitCommandError; any other exception propagates.
fetch_from_remote(rem, o) ==
    IF rem = << >> THEN [ret |-> FALSE, exc |-> NoExc, fetched |-> FALSE]
    ELSE IF o = "ok" THEN [ret |-> TRUE, exc |-> NoExc, fetched |-> TRUE]
    ELSE IF o = "GitCommandError"
         THEN [ret |-> FALSE, exc |-> NoExc, fetched |-> TRUE]
    ELSE [ret |-> FALSE, exc |-> o, fetched |-> TRUE]

(***************************************************************************)
(* Text helpers (RepoHelpers.py).                                          *)
(***************************************************************************)
Min(a, b) == IF a <= b THEN a ELSE b
Max(a, b) == IF a >= b THEN a ELSE b

\* Python's s[a:b] for 0 <= a, b (offsets are 0-based, b exclusive).
Slice(s, a, b) == SubSeq(s, a + 1, Min(b, Len(s)))

\* _is_probably_text without the NUL test of line 106.
_is_probably_text_any(data) == TRUE

\* Only content without a NUL byte is text.  (The second test of the code,
\* UTF-8 decoding, always succeeds on the lexemes of this model.)
_is_probably_text(data) == "Z" \notin Range(data)

\* _sanitize_text that finds nothing.
_sanitize_text_blind(s) == [text |-> s, changed |-> FALSE]

\* Every secret in a shape the patterns match becomes the token api_key;
\* changed tells whether one was found.
_sanitize_text(s) ==
    [text |-> [i \in DOMAIN s |-> IF s[i] = "S" THEN "K" ELSE s[i]],
     changed |-> "S" \in Range(s)]

\* _blob_mode_from_index that answers the default mode always.
_blob_mode_from_index_default(idx, p) == "100644"

\* The mode of the path's index entry, 100644 when the entry is missing.
_blob_mode_from_index(idx, p) ==
    IF idx[p] # NoFile THEN idx[p].mode ELSE "100644"

\* repo.git.show(':path'), with the working-tree file as the fallback when
\* the lookup raises (RepoHelpers.py:172-183 and 309-319).
ReadStagedBlob(idx, wt, p, showFails) ==
    IF ~showFails THEN [ok |-> TRUE, data |-> idx[p].oid]
    ELSE IF wt[p] = NoFile THEN [ok |-> FALSE, data |-> << >>]
    ELSE [ok |-> TRUE, data |-> wt[p].data]

WriteOutcomes == {"ok", "hash_fail", "update_fail"}

\* A rewrite that edits the working-tree file too.
WriteStagedBlob_inplace(st, p, text) ==
    [st EXCEPT !.index[p] =
                  [oid |-> text, mode |-> _blob_mode_from_index(st.index, p)],
               !.worktree[p] = [data |-> text, mode |-> st.index[p].mode]]

\* git hash-object -w --stdin, then git update-index --cacheinfo: the
\* path's entry is repointed to the new blob under the mode it had.  st is
\* the repository's files, [index, worktree].
WriteStagedBlob(st, p, text) ==
    [st EXCEPT !.index[p] =
        [oid |-> text, mode |-> _blob_mode_from_index(st.index, p)]]

(***************************************************************************)
(* The regex pass: the body of the loop of                                 *)
(* sanitize_staged_secrets_in_index for one staged path.  acc holds the    *)
(* repository's files, the list `modified` and the texts scanned.          *)
(***************************************************************************)
\* RegexFile with an update-index that fails after it repointed the entry.
RegexFile_halfway(acc, p, showFails, wo) ==
    IF acc.index[p] = NoFile THEN acc
    ELSE LET rd == ReadStagedBlob(acc.index, acc.worktree, p, showFails)
             shown == [acc EXCEPT !.ran = @ \cup {"show"}]
         IN
         IF ~rd.ok \/ ~_is_probably_text(rd.data) THEN shown
         ELSE LET r == _sanitize_text(rd.data)
                  scanned == [shown EXCEPT
                                !.seen = @ \cup { << p, rd.data >> }]
                  seen == IF r.changed
                          THEN [scanned EXCEPT !.ran = @ \cup {"write"}]
                          ELSE scanned
              IN  IF ~r.changed \/ wo = "hash_fail" THEN seen
                  ELSE LET st == WriteStagedBlob(
                                    [index |-> seen.index,
                                     worktree |-> seen.worktree], p, r.text)
                       IN  IF wo = "update_fail"
                           THEN [seen EXCEPT !.index = st.index]
                           ELSE [seen EXCEPT
                                   !.index = st.index,
                                   !.worktree = st.worktree,
                                   !.modified = Append(@, [path |-> p,
                                                           replaced |-> TRUE])]

RegexFile(acc, p, showFails, wo) ==
    IF acc.index[p] = NoFile THEN acc
    ELSE LET rd == ReadStagedBlob(acc.index, acc.worktree, p, showFails)
             shown == [acc EXCEPT !.ran = @ \cup {"show"}]
         IN
         IF ~rd.ok \/ ~_is_probably_text(rd.data) THEN shown
         ELSE LET r == _sanitize_text(rd.data)
                  scanned == [shown EXCEPT
                                !.seen = @ \cup { << p, rd.data >> }]
                  seen == IF r.changed
                          THEN [scanned EXCEPT !.ran = @ \cup {"write"}]
                          ELSE scanned
              IN  IF ~r.changed \/ wo = "hash_fail" THEN seen
                  ELSE LET st == WriteStagedBlob(
                                    [index |-> seen.index,
                                     worktree |-> seen.worktree], p, r.text)
                       IN  IF wo = "update_fail" THEN seen
                           ELSE [seen EXCEPT
                                   !.index = st.index,
                                   !.worktree = st.worktree,
                                   !.modified = Append(@, [path |-> p,
                                                           replaced |-> TRUE])]

(***************************************************************************)
(* The semantic pass (llm_scan_staged_secrets_in_index).                   *)
(***************************************************************************)
MinFlaggedLen == 8

\* Characters each lexeme stands for, for the length floor of line 369.
LexWidth == [w |-> 4, S |-> 20, L |-> 12, Z |-> 1, K |-> 7, Q |-> 11]

RECURSIVE ChunkLoop(_, _, _, _)
ChunkLoop(s, i, max_chars, overlap) ==
    LET n == Len(s)
        j == Min(i + max_chars, n)
        here == << [base |-> i, chunk |-> Slice(s, i, j)] >>
    IN  IF j = n THEN here
        ELSE here \o ChunkLoop(s, Max(0, j - overlap), max_chars, overlap)

\* _chunk_text that steps past the end of each chunk.
_chunk_text_gap(s, max_chars, overlap) ==
    IF Len(s) <= max_chars THEN << [base |-> 0, chunk |-> s] >>
    ELSE ChunkLoop(s, 0, max_chars, 0 - 1)

\* _chunk_text that steps back two characters less than the overlap.
_chunk_text_short(s, max_chars, overlap) ==
    IF Len(s) <= max_chars THEN << [base |-> 0, chunk |-> s] >>
    ELSE ChunkLoop(s, 0, max_chars, Max(0, overlap - 2))

\* _chunk_text: the (offset, chunk) pairs of s.
_chunk_text(s, max_chars, overlap) ==
    IF Len(s) <= max_chars THEN << [base |-> 0, chunk |-> s] >>
    ELSE ChunkLoop(s, 0, max_chars, overlap)

\* Insert range r in a list sorted by descending start, after the ranges
\* of the same start (Python's sort is stable, also with reverse=True).
RECURSIVE InsertDesc(_, _)
InsertDesc(sorted, r) ==
    IF sorted = << >> THEN << r >>
    ELSE IF Head(sorted)[1] >= r[1]
         THEN << Head(sorted) >> \o InsertDesc(Tail(sorted), r)
         ELSE << r >> \o sorted

RECURSIVE SortDesc(_)
SortDesc(ranges) ==
    IF ranges = << >> THEN << >>
    ELSE InsertDesc(SortDesc(SubSeq(ranges, 1, Len(ranges) - 1)),
                    ranges[Len(ranges)])

RECURSIVE ApplySorted(_, _, _)
ApplySorted(out, ranges, replacement) ==
    IF ranges = << >> THEN out
    ELSE LET start == Head(ranges)[1]
             end == Head(ranges)[2]
             nxt == IF 0 <= start /\ start < end /\ end <= Len(out)
                    THEN Slice(out, 0, start) \o replacement
                         \o Slice(out, end, Len(out))
                    ELSE out
         IN  ApplySorted(nxt, Tail(ranges), replacement)

\* _apply_replacements_by_ranges: the [start, end) ranges replaced, by
\* descending start.
_apply_replacements_by_ranges(text, ranges, replacement) ==
    ApplySorted(text, SortDesc(ranges), replacement)

\* The reply of the reasoning service to one chunk: it raises, answers text
\* that is no JSON, or answers a JSON list of items.
Behaviours == {"raise", "garbage", "exact", "drift"}
ServiceFailures == {"raise", "garbage"}

SecretAt(chunk) == { i \in DOMAIN chunk : chunk[i] \in {"L", "S"} }

RECURSIVE ItemsFor(_, _, _)
ItemsFor(chunk, i, exact) ==
    IF i > Len(chunk) THEN << >>
    ELSE (IF i \in SecretAt(chunk)
          THEN << [start |-> IF exact THEN i - 1 ELSE 0,
                   end |-> IF exact THEN i ELSE 1,
                   snippet |-> << chunk[i] >>] >>
          ELSE << >>) \o ItemsFor(chunk, i + 1, exact)

ServiceReply(beh, chunk) ==
    IF beh = "raise" THEN [kind |-> "raise", items |-> << >>]
    ELSE IF beh = "garbage" THEN [kind |-> "text", items |-> << >>]
    ELSE [kind |-> "json", items |-> ItemsFor(chunk, 1, beh = "exact")]

\* _extract_findings_from_response: no findings unless the text parses.
_extract_findings_from_response(resp) ==
    IF resp.kind = "json" THEN resp.items ELSE << >>

\* snip in text, and text.find(snip) (-1 when absent).
OccursAt(text, snip, i) ==
    i + Len(snip) <= Len(text) /\ Slice(text, i, i + Len(snip)) = snip

Contains(text, snip) == \E i \in 0..Len(text) : OccursAt(text, snip, i)

Find(text, snip) ==
    IF Contains(text, snip)
    THEN CHOOSE i \in 0..Len(text) :
            OccursAt(text, snip, i)
            /\ \A k \in 0..(i - 1) : ~OccursAt(text, snip, k)
    ELSE -1

\* Lines 355-373 for one finding: the ranges it adds to all_ranges.
FindingRanges(base, chunk, f) ==
    IF ~(0 <= f.start /\ f.start < f.end /\ f.end < Len(chunk)) THEN << >>
    ELSE LET cand0 == Slice(chunk, f.start, f.end)
             idx == IF f.snippet # << >> /\ ~Contains(cand0, f.snippet)
                    THEN Find(chunk, f.snippet) ELSE -1
             s == IF idx # -1 THEN idx ELSE f.start
             e == IF idx # -1 THEN idx + Len(f.snippet) ELSE f.end
         IN  IF SumWidth(LexWidth, Slice(chunk, s, e)) >= MinFlaggedLen
             THEN << << base + s, base + e >> >>
             ELSE << >>

RECURSIVE FindingsRanges(_, _, _)
FindingsRanges(base, chunk, fs) ==
    IF fs = << >> THEN << >>
    ELSE FindingRanges(base, chunk, Head(fs))
         \o FindingsRanges(base, chunk, Tail(fs))

\* The loop over the chunks of one file (lines 331-375): beh gives the
\* service's behaviour on each chunk; the result is all_ranges, notes and
\* the chunks sent.
RECURSIVE ScanChunks(_, _, _, _)
ScanChunks(chunks, k, beh, acc) ==
    IF k > Len(chunks) THEN acc
    ELSE LET c == chunks[k]
             resp == ServiceReply(beh[k], c.chunk)
             rs == FindingsRanges(c.base, c.chunk,
                                  _extract_findings_from_response(resp))
             sent == acc.sent \cup { c.chunk }
         IN  ScanChunks(chunks, k + 1, beh,
                IF resp.kind = "raise"
                THEN [acc EXCEPT !.sent = sent,
                                 !.notes = Append(@, "LLM error on chunk")]
                ELSE [acc EXCEPT !.sent = sent,
                                 !.ranges = @ \o rs,
                                 !.notes = @ \o [i \in 1..Len(rs) |-> "finding"]])

\* The body of the loop over the staged paths (lines 304-420) for one path.
\* acc holds the repository's files, `results` and the chunks sent.
LlmFile(acc, p, showFails, beh, wo) ==
    IF acc.index[p] = NoFile THEN acc
    ELSE LET rd == ReadStagedBlob(acc.index, acc.worktree, p, showFails)
             shown == [acc EXCEPT !.ran = @ \cup {"show"}]
         IN
         IF ~rd.ok \/ ~_is_probably_text(rd.data) THEN shown
         ELSE LET text == rd.data
                  chunks == _chunk_text(text, ChunkMax, ChunkOverlap)
                  sc == ScanChunks(chunks, 1, beh,
                           [ranges |-> << >>, notes |-> << >>, sent |-> {}])
                  new_text == _apply_replacements_by_ranges(
                                 text, sc.ranges, << "Q" >>)
                  seen == [shown EXCEPT
                             !.sent = @ \cup { << p, c >> : c \in sc.sent },
                             !.nchunks = Len(chunks),
                             !.ran = @ \cup (IF sc.ranges # << >>
                                                /\ new_text # text
                                             THEN {"write"} ELSE {})]
                  entry(n, notes) ==
                      [path |-> p, replaced_count |-> n, notes |-> notes]
              IN  IF sc.ranges = << >> \/ new_text = text THEN seen
                  ELSE IF wo = "hash_fail"
                  THEN [seen EXCEPT !.results = Append(@,
                          entry(0, Append(sc.notes, "hash-object failed")))]
                  ELSE LET st == WriteStagedBlob(
                                    [index |-> seen.index,
                                     worktree |-> seen.worktree], p, new_text)
                       IN  IF wo = "update_fail"
                           THEN [seen EXCEPT !.results = Append(@,
                                   entry(0, Append(sc.notes,
                                                   "update-index failed")))]
                           ELSE [seen EXCEPT
                                   !.index = st.index,
                                   !.worktree = st.worktree,
                                   !.results = Append(@,
                                       entry(Len(sc.ranges), sc.notes))]

(***************************************************************************)
(* The commit message (generate_commit_message).  A message is a sequence  *)
(* of lines; a line is its text and its length in characters.              *)
(***************************************************************************)
SubjectMax == 72

Line(t, n) == [t |-> t, len |-> n]
Blank == Line("", 0)
Fence == Line("<code fence>", 3)

\* _staged_name_status: (status letter, path) of every staged path; the
\* empty list when the diff raises.
RECURSIVE StatusOf(_, _, _)
StatusOf(paths, idx, tree) ==
    IF paths = << >> THEN << >>
    ELSE LET p == Head(paths)
             st == IF tree[p] = NoFile THEN "A"
                   ELSE IF idx[p] = NoFile THEN "D" ELSE "M"
         IN  << [status |-> st, path |-> p] >> \o StatusOf(Tail(paths), idx, tree)

_staged_name_status(idx, cs, derr) ==
    IF DiffRaises(cs, derr) THEN << >>
    ELSE StatusOf(DiffCachedNames(idx, cs), idx, HeadTree(cs))

CountStatus(staged, letter) ==
    Cardinality({ i \in DOMAIN staged : staged[i].status = letter })

PathsOf(entries) == { entries[i].path : i \in DOMAIN entries }

\* _fallback_commit_message that does not look at the sanitized paths.
_fallback_commit_message_plain(staged, san, llm) ==
    << Line("chore: commit staged changes", 28), Blank >>
    \o (IF CountStatus(staged, "A") + CountStatus(staged, "M")
             + CountStatus(staged, "D") > 0
        THEN << [t |-> "- files: +a ~m -d", len |-> 17,
                 counts |-> << CountStatus(staged, "A"),
                               CountStatus(staged, "M"),
                               CountStatus(staged, "D") >>] >>
        ELSE << >>)
    \o << Line("- auto-generated message (fallback)", 35) >>

\* _fallback_commit_message
_fallback_commit_message(staged, san, llm) ==
    LET added == CountStatus(staged, "A")
        modified == CountStatus(staged, "M")
        deleted == CountStatus(staged, "D")
        sec_paths == PathsOf(san) \cup PathsOf(llm)
        subject == IF sec_paths # {}
                   THEN Line("chore(security): sanitize secrets and commit changes", 52)
                   ELSE Line("chore: commit staged changes", 28)
    IN  << subject, Blank >>
        \o (IF added + modified + deleted > 0
            THEN << [t |-> "- files: +a ~m -d", len |-> 17,
                     counts |-> << added, modified, deleted >>] >>
            ELSE << >>)
        \o (IF sec_paths # {}
            THEN << [t |-> "- sanitized secrets in n file(s)", len |-> 32,
                     counts |-> << Cardinality(sec_paths) >>] >>
            ELSE << >>)
        \o << Line("- auto-generated message (fallback)", 35) >>

\* Texts the message service may answer.
ServiceTexts ==
    { << Line("feat: subject", 13), Line("body", 4) >>,
      << Fence, Line("chore(security): long subject", 80), Blank, Blank,
         Line("body", 4), Fence >>,
      << Fence >>,
      << >> }

MessageReplies ==
    { [kind |-> k, lines |-> << >>] : k \in {"client_error", "raise"} }
    \cup { [kind |-> "text", lines |-> t] : t \in ServiceTexts }

DefaultReply ==
    [kind |-> "text", lines |-> << Line("feat: subject", 13), Line("body", 4) >>]

\* str.strip() on the lines of a text: leading and trailing blank lines go.
RECURSIVE DropLeadingBlank(_)
DropLeadingBlank(ls) ==
    IF ls # << >> /\ Head(ls) = Blank THEN DropLeadingBlank(Tail(ls)) ELSE ls

RECURSIVE DropTrailingBlank(_)
DropTrailingBlank(ls) ==
    IF ls # << >> /\ ls[Len(ls)] = Blank
    THEN DropTrailingBlank(SubSeq(ls, 1, Len(ls) - 1)) ELSE ls

Strip(ls) == DropTrailingBlank(DropLeadingBlank(ls))

\* msg.replace of the code-fence marker by the empty string
Unfence(ls) == [i \in DOMAIN ls |-> IF ls[i] = Fence THEN Blank ELSE ls[i]]

\* Lines 678-694: the accepted message, or << >> when the code raises.
Normalize(reply) ==
    LET msg == Strip(reply)
        lines == IF Fence \in Range(msg) THEN Strip(Unfence(msg)) ELSE msg
    IN  IF msg = << >> \/ lines = << >> THEN << >>
        ELSE LET subject == [lines[1] EXCEPT !.len = Min(@, SubjectMax)]
             IN  << subject >>
                 \o (IF Len(lines) = 1 \/ lines[2] = Blank THEN << >>
                     ELSE << Blank >>)
                 \o Tail(lines)

ContextOutcomes == {"ok", "OSError"}

NoopMessage == << Line("chore: no-op (nothing staged)", 29) >>

\* generate_commit_message from line 609 on, given what line 608 listed:
\* the message, or the exception that escapes.  ctx is what
\* collect_project_context_dynamic does (line 613, outside the try), reply
\* what the message service does (inside it).
MessageFor(staged, san, llm, ctx, reply) ==
    IF staged = << >>
    THEN [exc |-> NoExc, ran |-> {}, msg |-> NoopMessage]
    ELSE IF ctx # "ok" THEN [exc |-> ctx, ran |-> {"ctx"}, msg |-> NoMessage]
    ELSE LET accepted == IF reply.kind = "text" THEN Normalize(reply.lines)
                         ELSE << >>
         IN  [exc |-> NoExc, ran |-> {"ctx", "service"},
              msg |-> IF accepted # << >> THEN accepted
                      ELSE _fallback_commit_message(staged, san, llm)]

\* generate_commit_message
generate_commit_message(idx, cs, derr, san, llm, ctx, reply) ==
    MessageFor(_staged_name_status(idx, cs, derr), san, llm, ctx, reply)

(***************************************************************************)
(* Initial states: a repository with or without a commit, with a clean     *)
(* index, any working tree of the listed files, and zero, one or two       *)
(* remotes.                                                                *)
(***************************************************************************)
File(d, m) == [data |-> d, mode |-> m]

Tree(a, b) == [p \in Paths |-> IF p = "f1" THEN a ELSE b]

\* The working trees a behaviour may start from.
InitWorktrees ==
    { Tree(File(<< "w" >>, "100755"), NoFile),
      Tree(File(<< "Z", "S" >>, "100755"), File(<< "S" >>, "100644")),
      Tree(File(<< "S", "L", "w" >>, "100755"), NoFile),
      Tree(File(<< "L", "w" >>, "100755"), File(<< "S" >>, "100644")),
      Tree(NoFile, NoFile) }

InitRemotes == { << >>, << "upstream", "origin" >> }

BaseTree == Tree([oid |-> << "w" >>, mode |-> "100755"], NoFile)

\* A commit: its tree.  (Its message is commit_message at the moment of the
\* commit.)
Commit(tree, msg) == [tree |-> tree]

NoPush == [exc |-> NoExc, flags |-> << >>]

NoPrev == [committed |-> FALSE, pushFailed |-> FALSE, sanitizedAny |-> FALSE,
           edited |-> FALSE]

Init ==
    /\ worktree \in InitWorktrees
    /\ \/ commits = << >> /\ diffErr \in BOOLEAN
       \/ commits = << Commit(BaseTree, NoMessage) >> /\ diffErr = FALSE
    /\ index = HeadTree(commits)
    /\ remotes \in InitRemotes
    /\ pc = "idle"
    /\ runNo = 0
    /\ edits = 0
    /\ repo_path = NoPath
    /\ return_message = << >>
    /\ sanitized = << >>
    /\ llm_results = << >>
    /\ commit_message = NoMessage
    /\ result = NoDict
    /\ exc = NoExc
    /\ reported = NoDict
    /\ calls = {}
    /\ regexCalls = {}
    /\ llmCalls = {}
    /\ fetchOutcome = "none"
    /\ pushOutcome = NoPush
    /\ head0 = Len(commits)
    /\ wt0 = worktree
    /\ staged0 = index
    /\ todo = << >>
    /\ faults = 0
    /\ prev = NoPrev
    /\ probe = NoProbe

(***************************************************************************)
(* auto_commit, one action per step of the pipeline                        *)
(* START -> VALIDATE_REPO -> FETCH -> STAGE -> CHECK_STAGED ->             *)
(* SANITIZE_REGEX -> SANITIZE_LLM -> COMPOSE_MESSAGE -> COMMIT -> PUSH.    *)
(***************************************************************************)
runLocal == << repo_path, return_message, sanitized, llm_results,
               commit_message, result, exc, calls, regexCalls, llmCalls,
               fetchOutcome, pushOutcome, head0, wt0, staged0, todo >>

\* A collaborator fails only within the bound on failures, and only where
\* the failing operation runs.
Cost(failed) == IF failed THEN 1 ELSE 0

Fault(n) == /\ faults + n <= MaxFaults
            /\ faults' = faults + n

Part(kind, entries) ==
    [kind |-> kind, paths |-> [i \in DOMAIN entries |-> entries[i].path]]

\* The message "Nothing to commit" of line 61.
NothingToCommit == << Part("Nothing to commit", << >>) >>

Return(dict) == /\ result' = dict
                /\ pc' = "returned"

Raise(e) == /\ exc' = e
            /\ pc' = "raised"

\* get_git_root: the Repo of the path, None when it is in no repository.
get_git_root(path) == IF path = "repo" THEN "repo" ELSE "None"

\* The dispatcher calls auto_commit(get_cwd()); lines 19-40.
Start ==
    /\ pc = "idle"
    /\ runNo < MaxRuns
    /\ runNo' = runNo + 1
    /\ \E path \in {NoPath, "elsewhere", "repo"} :
          /\ repo_path' = path
          /\ IF path = NoPath
                THEN Return([ok |-> FALSE, error |-> "no active project",
                             path |-> path])
                ELSE IF get_git_root(path) = "None"
                THEN Return([ok |-> FALSE, error |-> "not a git repository",
                             path |-> path])
                ELSE pc' = "fetch" /\ result' = NoDict
    /\ return_message' = << >>
    /\ sanitized' = << >>
    /\ llm_results' = << >>
    /\ commit_message' = NoMessage
    /\ exc' = NoExc
    /\ reported' = NoDict
    /\ calls' = {}
    /\ regexCalls' = {}
    /\ llmCalls' = {}
    /\ fetchOutcome' = "none"
    /\ pushOutcome' = NoPush
    /\ head0' = Len(commits)
    /\ wt0' = worktree
    /\ staged0' = index
    /\ todo' = << >>
    /\ UNCHANGED << repoVars, edits, faults, prev >>
    /\ UNCHANGED probe

\* Lines 42-52.
Fetch ==
    /\ pc = "fetch"
    /\ IF remotes = << >>
          THEN /\ pc' = "stage"
               /\ UNCHANGED << result, calls, fetchOutcome, faults >>
          ELSE \E o \in FetchOutcomes :
                 LET r == fetch_from_remote(remotes, o) IN
                 /\ Fault(Cost(o # "ok"))
                 /\ calls' = calls \cup {"fetch"}
                 /\ fetchOutcome' = o
                 /\ IF r.exc # NoExc
                       THEN Return([ok |-> TRUE,
                                    warn |-> "Repository does not have a remote",
                                    path |-> repo_path])
                       ELSE pc' = "stage" /\ UNCHANGED result
    /\ UNCHANGED << repoVars, runNo, edits, repo_path, return_message,
                    sanitized, llm_results, commit_message, exc, reported,
                    regexCalls, llmCalls, pushOutcome, head0, wt0, staged0,
                    todo, prev >>
    /\ UNCHANGED probe

StageOutcomes == {"ok", "GitCommandError"}

\* Lines 54-56: repo.git.add(A=True), outside any try.
Stage ==
    /\ pc = "stage"
    /\ calls' = calls \cup {"add"}
    /\ \E o \in StageOutcomes :
          /\ Fault(Cost(o # "ok"))
          /\ IF o = "ok"
                THEN /\ index' = StageAll(worktree)
                     /\ staged0' = StageAll(worktree)
                     /\ pc' = "check"
                     /\ UNCHANGED exc
                ELSE /\ Raise(o)
                     /\ UNCHANGED << index, staged0 >>
    /\ UNCHANGED << worktree, commits, remotes, diffErr, runNo, edits,
                    repo_path, return_message, sanitized, llm_results,
                    commit_message, result, reported, regexCalls, llmCalls,
                    fetchOutcome, pushOutcome, head0, wt0, todo, prev >>
    /\ UNCHANGED probe

\* Lines 58-63.
CheckStaged ==
    /\ pc = "check"
    /\ IF ~anything_staged(index, commits, diffErr)
          THEN Return([ok |-> TRUE, message |-> NothingToCommit,
                       path |-> repo_path])
          ELSE pc' = "regex_begin" /\ UNCHANGED result
    /\ UNCHANGED << repoVars, runNo, edits, repo_path, return_message,
                    sanitized, llm_results, commit_message, exc, reported,
                    calls, regexCalls, llmCalls, fetchOutcome, pushOutcome,
                    head0, wt0, staged0, todo, faults, prev >>
    /\ UNCHANGED probe

\* sanitize_staged_secrets_in_index, lines 151-163: the staged paths.
RegexBegin ==
    /\ pc = "regex_begin"
    /\ calls' = calls \cup {"regex"}
    /\ todo' = StagedPaths(index, commits, diffErr)
    /\ pc' = "regex"
    /\ UNCHANGED << repoVars, runNo, edits, repo_path, return_message,
                    sanitized, llm_results, commit_message, result, exc,
                    reported, regexCalls, llmCalls, fetchOutcome,
                    pushOutcome, head0, wt0, staged0, faults, prev >>
    /\ UNCHANGED probe

\* sanitize_staged_secrets_in_index, lines 165-221: one staged path.
RegexStep ==
    /\ pc = "regex"
    /\ todo # << >>
    /\ \E showFails \in BOOLEAN, wo \in WriteOutcomes :
          LET r == RegexFile([index |-> index, worktree |-> worktree,
                              modified |-> sanitized, seen |-> regexCalls,
                              ran |-> {}],
                             Head(todo), showFails, wo)
          IN  /\ showFails => "show" \in r.ran
              /\ wo # "ok" => "write" \in r.ran
              /\ Fault(Cost(showFails) + Cost(wo # "ok"))
              /\ index' = r.index
              /\ worktree' = r.worktree
              /\ sanitized' = r.modified
              /\ regexCalls' = r.seen
    /\ todo' = Tail(todo)
    /\ UNCHANGED << commits, remotes, diffErr, pc, runNo, edits, repo_path,
                    return_message, llm_results, commit_message, result, exc,
                    reported, calls, llmCalls, fetchOutcome, pushOutcome,
                    head0, wt0, staged0, prev >>
    /\ UNCHANGED probe

\* workflows.py lines 67-78: the regex pass has returned.
RegexEnd ==
    /\ pc = "regex"
    /\ todo = << >>
    /\ return_message' = IF sanitized # << >>
                         THEN << Part("regex_found", sanitized) >>
                         ELSE << >>
    /\ pc' = "llm_begin"
    /\ UNCHANGED << repoVars, runNo, edits, repo_path, sanitized,
                    llm_results, commit_message, result, exc, reported, calls,
                    regexCalls, llmCalls, fetchOutcome, pushOutcome, head0,
                    wt0, staged0, todo, faults, prev >>
    /\ UNCHANGED probe

\* llm_scan_staged_secrets_in_index, lines 289-302: the staged paths, then
\* the service client, built outside any try.
LlmBegin ==
    /\ pc = "llm_begin"
    /\ calls' = calls \cup {"llm"}
    /\ LET staged_paths == StagedPaths(index, commits, diffErr) IN
       IF staged_paths = << >>
          THEN /\ todo' = << >>
               /\ pc' = "llm"
               /\ UNCHANGED << exc, faults >>
          ELSE \E clientOk \in BOOLEAN :
                 /\ Fault(Cost(~clientOk))
                 /\ IF clientOk
                       THEN /\ todo' = staged_paths
                            /\ pc' = "llm"
                            /\ UNCHANGED exc
                       ELSE /\ Raise("ClientError")
                            /\ UNCHANGED todo
    /\ UNCHANGED << repoVars, runNo, edits, repo_path, return_message,
                    sanitized, llm_results, commit_message, result, reported,
                    regexCalls, llmCalls, fetchOutcome, pushOutcome, head0,
                    wt0, staged0, prev >>
    /\ UNCHANGED probe

\* llm_scan_staged_secrets_in_index, lines 304-420: one staged path.
LlmStep ==
    /\ pc = "llm"
    /\ todo # << >>
    /\ \E showFails \in BOOLEAN, wo \in WriteOutcomes,
          b1 \in Behaviours, b2 \in Behaviours :
          LET beh == [k \in 1..3 |-> IF k = 1 THEN b1 ELSE b2]
              r == LlmFile([index |-> index, worktree |-> worktree,
                            results |-> llm_results, sent |-> llmCalls,
                            ran |-> {}, nchunks |-> 0],
                           Head(todo), showFails, beh, wo)
          IN  /\ showFails => "show" \in r.ran
              /\ wo # "ok" => "write" \in r.ran
              /\ r.nchunks < 1 => b1 = "exact"
              /\ r.nchunks < 2 => b2 = "exact"
              /\ Fault(Cost(showFails) + Cost(wo # "ok")
                       + Cost(b1 \in ServiceFailures)
                       + Cost(b2 \in ServiceFailures))
              /\ index' = r.index
              /\ worktree' = r.worktree
              /\ llm_results' = r.results
              /\ llmCalls' = r.sent
    /\ todo' = Tail(todo)
    /\ UNCHANGED << commits, remotes, diffErr, pc, runNo, edits, repo_path,
                    return_message, sanitized, commit_message, result, exc,
                    reported, calls, regexCalls, fetchOutcome, pushOutcome,
                    head0, wt0, staged0, prev >>
    /\ UNCHANGED probe

\* workflows.py lines 82-100: the semantic pass has returned.
LlmEnd ==
    /\ pc = "llm"
    /\ todo = << >>
    /\ return_message' =
          IF llm_results = << >> THEN return_message
          ELSE IF return_message = << >>
          THEN << Part("llm_found", llm_results) >>
          ELSE Append(return_message, Part("llm_also", llm_results))
    /\ pc' = "compose"
    /\ UNCHANGED << repoVars, runNo, edits, repo_path, sanitized,
                    llm_results, commit_message, result, exc, reported, calls,
                    regexCalls, llmCalls, fetchOutcome, pushOutcome, head0,
                    wt0, staged0, todo, faults, prev >>
    /\ UNCHANGED probe

ReplyFails(reply) == reply.kind # "text" \/ Normalize(reply.lines) = << >>

\* Lines 102-105.
Compose ==
    /\ pc = "compose"
    /\ calls' = calls \cup {"compose"}
    /\ \E ctx \in ContextOutcomes, reply \in MessageReplies :
          LET r == generate_commit_message(index, commits, diffErr,
                                           sanitized, llm_results, ctx, reply)
          IN  /\ "ctx" \notin r.ran => ctx = "ok"
              /\ "service" \notin r.ran => reply = DefaultReply
              /\ Fault(Cost(ctx # "ok") + Cost(ReplyFails(reply)))
              /\ IF r.exc # NoExc
                    THEN Raise(r.exc) /\ UNCHANGED commit_message
                    ELSE /\ commit_message' = r.msg
                         /\ pc' = "commit"
                         /\ UNCHANGED exc
    /\ UNCHANGED << repoVars, runNo, edits, repo_path, return_message,
                    sanitized, llm_results, result, reported, regexCalls,
                    llmCalls, fetchOutcome, pushOutcome, head0, wt0, staged0,
                    todo, prev >>
    /\ UNCHANGED probe

CommitOutcomes == {"ok", "Exception"}

\* Lines 107-119: repo.index.commit(commit_message).
CommitStep ==
    /\ pc = "commit"
    /\ calls' = calls \cup {"commit"}
    /\ \E o \in CommitOutcomes :
          /\ Fault(Cost(o # "ok"))
          /\ IF o = "ok"
                THEN /\ commits' = Append(commits, Commit(index, commit_message))
                     /\ return_message' =
                           Append(return_message, Part("committed", << >>))
                     /\ pc' = "push"
                     /\ UNCHANGED result
                ELSE /\ Return([ok |-> FALSE,
                                error |-> "auto_commit failed while committing",
                                path |-> repo_path])
                     /\ UNCHANGED << commits, return_message >>
    /\ UNCHANGED << worktree, index, remotes, diffErr, runNo, edits,
                    repo_path, sanitized, llm_results, commit_message, exc,
                    reported, regexCalls, llmCalls, fetchOutcome, pushOutcome,
                    head0, wt0, staged0, todo, prev >>
    /\ UNCHANGED probe

\* What remote.push() does: it raises, or returns the error flags of its
\* push results.
PushOutcomes ==
    { [exc |-> NoExc, flags |-> f] :
         f \in { << FALSE >>, << TRUE >>, << FALSE, TRUE >> } }
    \cup { [exc |-> e, flags |-> << >>] : e \in {"GitCommandError", "OtherError"} }

PushFailed(o) == o.exc # NoExc \/ TRUE \in Range(o.flags)

\* Lines 121-143.
Push ==
    /\ pc = "push"
    /\ IF remotes = << >>
          THEN /\ Return([ok |-> TRUE, message |-> return_message,
                          path |-> repo_path])
               /\ UNCHANGED << calls, pushOutcome, return_message, exc,
                               faults >>
          ELSE \E o \in PushOutcomes :
                 /\ Fault(Cost(PushFailed(o)))
                 /\ calls' = calls \cup {"push"}
                 /\ pushOutcome' = o
                 /\ IF o.exc = "OtherError"
                       THEN Raise(o.exc) /\ UNCHANGED << result, return_message >>
                       ELSE LET msg ==
                                  IF o.exc = "GitCommandError" THEN return_message
                                  ELSE IF o.flags # << >> /\ o.flags[1]
                                  THEN Append(return_message,
                                              Part("push_error", << >>))
                                  ELSE Append(return_message,
                                              Part("pushed", << >>))
                            IN  /\ return_message' = msg
                                /\ Return([ok |-> TRUE, message |-> msg,
                                           path |-> repo_path])
                                /\ UNCHANGED exc
    /\ UNCHANGED << repoVars, runNo, edits, repo_path, sanitized,
                    llm_results, commit_message, reported, regexCalls,
                    llmCalls, fetchOutcome, head0, wt0, staged0, todo, prev >>
    /\ UNCHANGED probe

(***************************************************************************)
(* The dispatcher (executer.main, lines 116-128): the action's dict, or    *)
(* ok=false when an exception escaped the action.                          *)
(***************************************************************************)
Dispatch ==
    /\ pc \in {"returned", "raised"}
    /\ reported' = IF pc = "raised"
                   THEN [ok |-> FALSE, error |-> "Action 'commit' failed"]
                   ELSE result
    /\ prev' = [committed |-> Len(commits) > head0,
                pushFailed |-> PushFailed(pushOutcome),
                sanitizedAny |-> index # staged0,
                edited |-> FALSE]
    /\ pc' = "idle"
    /\ UNCHANGED << repoVars, runNo, edits, runLocal, faults >>
    /\ UNCHANGED probe

\* Between two invocations the user may edit the working tree.
EditFiles == { File(<< "S" >>, "100644") }

Edit ==
    /\ pc = "idle"
    /\ runNo >= 1
    /\ edits < MaxEdits
    /\ edits' = edits + 1
    /\ \E f \in EditFiles :
          /\ worktree["f2"] # f
          /\ worktree' = [worktree EXCEPT !["f2"] = f]
    /\ prev' = [prev EXCEPT !.edited = TRUE]
    /\ UNCHANGED << index, commits, remotes, diffErr, pc, runNo, runLocal,
                    reported, faults >>
    /\ UNCHANGED probe

Next ==
    \/ Start
    \/ Fetch
    \/ Stage
    \/ CheckStaged
    \/ RegexBegin
    \/ RegexStep
    \/ RegexEnd
    \/ LlmBegin
    \/ LlmStep
    \/ LlmEnd
    \/ Compose
    \/ CommitStep
    \/ Push
    \/ Dispatch
    \/ Edit

Spec == Init /\ [][Next]_vars

(***************************************************************************)
(* _sanitize_text on characters.  A text is a sequence of one-character    *)
(* strings.  Positions count from 1; a match is given by the position      *)
(* after its last character.  Each pattern of KV_VALUE_PATTERNS and        *)
(* SECRET_TOKEN_PATTERNS is matched the way Python's re matches it: at the *)
(* leftmost position, alternatives in order, quantifiers greedy.           *)
(***************************************************************************)
UpperSeq == << "A", "B", "C", "D", "E", "F", "G", "H", "I", "J", "K", "L", "M",
               "N", "O", "P", "Q", "R", "S", "T", "U", "V", "W", "X", "Y", "Z" >>
LowerSeq == << "a", "b", "c", "d", "e", "f", "g", "h", "i", "j", "k", "l", "m",
               "n", "o", "p", "q", "r", "s", "t", "u", "v", "w", "x", "y", "z" >>
Upper == Range(UpperSeq)
Lower == Range(LowerSeq)
Digit == {"0", "1", "2", "3", "4", "5", "6", "7", "8", "9"}
Alnum == Upper \cup Lower \cup Digit

WS == {" ", "\t", "\n"}                          \* \s
WordCh == Alnum \cup {"_"}                       \* \w
NameCh == Alnum \cup {"_", ".", "-"}             \* [A-Za-z0-9_.-]
ValCh == Alnum \cup {"_", "-", "/", "+", "="}    \* [A-Za-z0-9_\-\/\+=]
JwtCh == Alnum \cup {"_", "-"}                   \* [A-Za-z0-9_-]
BearerCh == Alnum \cup {"-", ".", "_", "="}      \* [A-Za-z0-9\-\._=]
Quotes1 == {"\"", "'"}                           \* double or single quote
BackQuote == "<backquote>"                      \* the backquote character
Quotes2 == {"\"", "'", BackQuote}              \* double, single, backquote

ApiKey == << "a", "p", "i", "_", "k", "e", "y" >>

\* The character at position i, or "" outside the text.
At(s, i) == IF i \in DOMAIN s THEN s[i] ELSE ""

ToLower(c) ==
    IF c \in Upper THEN LowerSeq[CHOOSE k \in DOMAIN UpperSeq : UpperSeq[k] = c]
    ELSE c

\* The literal lit stands at position i (LitAtI: whatever the case; lit is
\* given in lower case).
LitAt(s, i, lit) == \A k \in DOMAIN lit : At(s, i + k - 1) = lit[k]
LitAtI(s, i, lit) == \A k \in DOMAIN lit : ToLower(At(s, i + k - 1)) = lit[k]

\* The number of characters of class cls that stand in a row from i on.
RECURSIVE RunLen(_, _, _)
RunLen(s, i, cls) ==
    IF At(s, i) \in cls THEN 1 + RunLen(s, i + 1, cls) ELSE 0

\* \b before position i
Boundary(s, i) == (At(s, i - 1) \in WordCh) # (At(s, i) \in WordCh)

NoMatch == [ok |-> FALSE, d |-> 0, q |-> << >>, end |-> 0]

\* name \s* [:=] \s* from position n0 on: the position after it, or 0.
\* No class of the prefix shares a character with the next one, so every
\* run is the whole run.
KvPrefixEnd(s, n0) ==
    LET n == RunLen(s, n0, NameCh)
        b == n0 + n + RunLen(s, n0 + n, WS)
    IN  IF n >= 2 /\ At(s, b) \in {":", "="}
        THEN b + 1 + RunLen(s, b + 1, WS)
        ELSE 0

\* KV_VALUE_PATTERNS[0] at position i (lines 41-43): d is where the prefix
\* ends, q the quote, end the position after the match.
KvGeneric(s, i) ==
    LET d == KvPrefixEnd(s, i)
        quoted == At(s, d) \in Quotes1
        v0 == IF quoted THEN d + 1 ELSE d
        r == RunLen(s, v0, ValCh)
    IN  IF d # 0 /\ r >= 16 /\ (quoted => At(s, v0 + r) = At(s, d))
        THEN [ok |-> TRUE, d |-> d,
              q |-> IF quoted THEN << s[d] >> ELSE << >>,
              end |-> v0 + r + (IF quoted THEN 1 ELSE 0)]
        ELSE NoMatch

\* KV_VALUE_PATTERNS[1] with the name at n0 (lines 50-53, re.IGNORECASE).
KvSkFrom(s, n0) ==
    LET d == KvPrefixEnd(s, n0)
        quoted == At(s, d) \in Quotes2
        v0 == IF quoted THEN d + 1 ELSE d
        r == RunLen(s, v0 + 3, Alnum)
        sk == LitAtI(s, v0, << "s", "k", "-" >>)
    IN  IF d = 0 \/ ~sk THEN NoMatch
        ELSE IF quoted
        THEN IF r >= 8 /\ r <= 48 /\ At(s, v0 + 3 + r) = At(s, d)
             THEN [ok |-> TRUE, d |-> d, q |-> << s[d] >>,
                   end |-> v0 + 3 + r + 1]
             ELSE NoMatch
        ELSE IF r >= 8
             THEN [ok |-> TRUE, d |-> d, q |-> << >>,
                   end |-> v0 + 3 + Min(r, 48)]
             ELSE NoMatch

\* the optional export\s+ is tried first
KvSk(s, i) ==
    LET w == RunLen(s, i + 6, WS)
        withExport ==
            IF LitAtI(s, i, << "e", "x", "p", "o", "r", "t" >>) /\ w >= 1
            THEN KvSkFrom(s, i + 6 + w) ELSE NoMatch
    IN  IF withExport.ok THEN withExport ELSE KvSkFrom(s, i)

KvMatch(k, s, i) == IF k = 1 THEN KvGeneric(s, i) ELSE KvSk(s, i)

\* What pattern k matches at each position of s.
KvMatches(k, s) == [i \in DOMAIN s |-> KvMatch(k, s, i)]

\* rx.sub(repl, s) of line 127, from position i on, ms being the matches of
\* the pattern at the positions of s: the text and whether repl was called.
RECURSIVE KvSub(_, _, _, _)
KvSub(s, ms, i, acc) ==
    IF i > Len(s) THEN acc
    ELSE IF ms[i].ok
    THEN KvSub(s, ms, ms[i].end,
               [text |-> acc.text \o SubSeq(s, i, ms[i].d - 1) \o ms[i].q
                                  \o ApiKey \o ms[i].q,
                hit |-> TRUE])
    ELSE KvSub(s, ms, i + 1, [acc EXCEPT !.text = Append(@, s[i])])

\* literal, then exactly n characters of cls
LitThenExactly(s, i, lit, cls, n) ==
    IF LitAt(s, i, lit) /\ RunLen(s, i + Len(lit), cls) >= n
    THEN i + Len(lit) + n ELSE 0

\* literal, then lo to hi characters of cls, as many as there are
LitThenUpTo(s, i, lit, cls, lo, hi) ==
    LET r == RunLen(s, i + Len(lit), cls)
    IN  IF LitAt(s, i, lit) /\ r >= lo THEN i + Len(lit) + Min(r, hi) ELSE 0

\* literal, then lo or more characters of cls
LitThenAtLeast(s, i, lit, cls, lo) ==
    LET r == RunLen(s, i + Len(lit), cls)
    IN  IF LitAt(s, i, lit) /\ r >= lo THEN i + Len(lit) + r ELSE 0

\* xox[baprs]-[A-Za-z0-9-]{10,48} (line 28)
SlackEnd(s, i) ==
    IF LitAt(s, i, << "x", "o", "x" >>) /\ At(s, i + 3) \in {"b", "a", "p", "r", "s"}
    THEN LitThenUpTo(s, i + 4, << "-" >>, Alnum \cup {"-"}, 10, 48)
    ELSE 0

\* (?i:Bearer\s+[A-Za-z0-9\-\._=]{20,}) (line 31)
BearerEnd(s, i) ==
    LET w == RunLen(s, i + 6, WS)
        r == RunLen(s, i + 6 + w, BearerCh)
    IN  IF LitAtI(s, i, << "b", "e", "a", "r", "e", "r" >>) /\ w >= 1 /\ r >= 20
        THEN i + 6 + w + r ELSE 0

\* [A-Za-z0-9_-]{10,}\.[A-Za-z0-9_-]{10,} from position a on, and the run
\* that follows a second dot: c is where that run starts (0: no match so
\* far), r3 its length, end2 the position after the second segment.
JwtSegments(s, a) ==
    LET r1 == RunLen(s, a, JwtCh)
        b == a + r1 + 1
        r2 == RunLen(s, b, JwtCh)
        two == r1 >= 10 /\ At(s, a + r1) = "." /\ r2 >= 10
        dot == two /\ At(s, b + r2) = "."
    IN  [two |-> two, end2 |-> b + r2,
         c |-> IF dot THEN b + r2 + 1 ELSE 0,
         r3 |-> IF dot THEN RunLen(s, b + r2 + 1, JwtCh) ELSE 0]

\* The third segment followed by \b: the longest length of 8 or more that
\* ends at a word boundary.
JwtBoundedEnd(s, g) ==
    LET ok == { v \in 8..g.r3 : Boundary(s, g.c + v) }
    IN  IF g.c # 0 /\ ok # {}
        THEN g.c + (CHOOSE v \in ok : \A u \in ok : u <= v)
        ELSE 0

\* lines 32 and 33
JwtWordEnd(s, i, lit) ==
    IF Boundary(s, i) /\ LitAt(s, i, lit)
    THEN JwtBoundedEnd(s, JwtSegments(s, i + Len(lit)))
    ELSE 0

EyJ == << "e", "y", "J" >>

\* line 34
JwtLookEnd(s, i) ==
    LET g == JwtSegments(s, i + 3)
    IN  IF At(s, i - 1) \notin JwtCh /\ LitAt(s, i, EyJ) /\ g.c # 0 /\ g.r3 >= 8
        THEN g.c + g.r3 ELSE 0

\* line 35
SkShortEnd(s, i) ==
    LET r == RunLen(s, i + 3, Alnum)
    IN  IF /\ At(s, i - 1) \notin JwtCh
           /\ LitAt(s, i, << "s", "k", "-" >>)
           /\ r >= 8 /\ r <= 19
           /\ At(s, i + 3 + r) \notin JwtCh
        THEN i + 3 + r ELSE 0

\* line 36
JwtOptEnd(s, i) ==
    LET g == JwtSegments(s, i + 3)
    IN  IF At(s, i - 1) \notin JwtCh /\ LitAt(s, i, EyJ) /\ g.two
        THEN IF g.c # 0 /\ g.r3 >= 8 THEN g.c + g.r3 ELSE g.end2
        ELSE 0

\* SECRET_TOKEN_PATTERNS (lines 22-37) at position i: the position after the
\* match of each pattern, 0 where it does not match.
SECRET_TOKEN_PATTERNS(s, i) ==
    << LitThenExactly(s, i, << "A", "K", "I", "A" >>, Upper \cup Digit, 16),
       LitThenExactly(s, i, << "A", "S", "I", "A" >>, Upper \cup Digit, 16),
       LitThenExactly(s, i, << "A", "I", "z", "a" >>, JwtCh, 35),
       LitThenExactly(s, i, << "g", "h", "p", "_" >>, Alnum, 36),
       LitThenExactly(s, i, << "g", "i", "t", "h", "u", "b", "_", "p", "a", "t", "_" >>,
                      WordCh, 82),
       SlackEnd(s, i),
       LitThenAtLeast(s, i, << "s", "k", "_", "l", "i", "v", "e", "_" >>, Alnum, 24),
       LitThenUpTo(s, i, << "s", "k", "-" >>, Alnum, 20, 48),
       BearerEnd(s, i),
       JwtWordEnd(s, i, << >>),
       JwtWordEnd(s, i, EyJ),
       JwtLookEnd(s, i),
       SkShortEnd(s, i),
       JwtOptEnd(s, i) >>

\* token_union at position i (line 132): the first alternative that
\* matches decides.
TokenEnd(s, i) ==
    LET ends == SECRET_TOKEN_PATTERNS(s, i)
        hits == { k \in DOMAIN ends : ends[k] # 0 }
    IN  IF hits = {} THEN 0
        ELSE ends[CHOOSE k \in hits : \A j \in hits : k <= j]

\* Where token_union's match ends at each position of s.
TokenEnds(s) == [i \in DOMAIN s |-> TokenEnd(s, i)]

\* token_union.sub('api_key', s) (line 133), from position i on, ends
\* being TokenEnds(s)
RECURSIVE TokenSub(_, _, _, _)
TokenSub(s, ends, i, acc) ==
    IF i > Len(s) THEN acc
    ELSE IF ends[i] # 0 THEN TokenSub(s, ends, ends[i], acc \o ApiKey)
    ELSE TokenSub(s, ends, i + 1, Append(acc, s[i]))

\* The element of a set of one element.
Only(S) == CHOOSE x \in S : TRUE

\* lines 119-128 for pattern k: s2 and whether repl was called
KvPass(k, s) == KvSub(s, KvMatches(k, s), 1, [text |-> << >>, hit |-> FALSE])

\* lines 131-133
TokenPass(s) == TokenSub(s, TokenEnds(s), 1, << >>)

\* _sanitize_text (lines 115-138) on characters: the text and `changed`.
\* Each pass works on the value the pass before it returned.
_sanitize_text_chars(s) ==
    Only({ Only({ Only({ [text |-> out,
                          changed |-> kv1.hit \/ kv2.hit \/ out # kv2.text] :
                            out \in { TokenPass(kv2.text) } }) :
                    kv2 \in { KvPass(2, kv1.text) } }) :
             kv1 \in { KvPass(1, s) } })

(***************************************************************************)
(* Specifications of the helper functions on their own.  `probe` holds the *)
(* arguments of one call and, once the function was applied, its results;  *)
(* the repository stays as it is.                                          *)
(***************************************************************************)
mainVars == << worktree, index, commits, remotes, diffErr, pc, runNo, edits,
               repo_path, return_message, sanitized, llm_results,
               commit_message, result, exc, reported, calls, regexCalls,
               llmCalls, fetchOutcome, pushOutcome, head0, wt0, staged0, todo,
               faults, prev >>

\* An empty repository on which no invocation runs.
Parked ==
    /\ worktree = Tree(NoFile, NoFile)
    /\ index = EmptyTree
    /\ commits = << >>
    /\ diffErr = FALSE
    /\ remotes = << >>
    /\ pc = "idle"
    /\ runNo = 0
    /\ edits = 0
    /\ repo_path = NoPath
    /\ return_message = << >>
    /\ sanitized = << >>
    /\ llm_results = << >>
    /\ commit_message = NoMessage
    /\ result = NoDict
    /\ exc = NoExc
    /\ reported = NoDict
    /\ calls = {}
    /\ regexCalls = {}
    /\ llmCalls = {}
    /\ fetchOutcome = "none"
    /\ pushOutcome = NoPush
    /\ head0 = 0
    /\ wt0 = worktree
    /\ staged0 = index
    /\ todo = << >>
    /\ faults = 0
    /\ prev = NoPrev

Rep(c, n) == [k \in 1..n |-> c]

\* Texts given to _sanitize_text: a key, an operator, a value between
\* optional quotes, and what follows on the next line.
JwtText == Rep("a", 10) \o << "." >> \o Rep("b", 10) \o << "." >> \o Rep("c", 8)
SkText(n) == << "s", "k", "-" >> \o Rep("a", n)

SanitizeNames ==
    { << >>,
      << "k" >>,
      << "O", "P", "E", "N", "A", "I", "_", "K", "E", "Y" >>,
      << "e", "x", "p", "o", "r", "t", " ", "K", "E", "Y" >>,
      << "a", "u", "t", "h", "e", "n", "t", "i", "c", "a", "t", "i",
         "o", "n", ".", "c", "r", "e", "d", "e", "n", "t", "i", "a",
         "l", "s", ".", "p", "a", "s", "s", "w", "o", "r", "d" >> }

SanitizeSeps == { << >>, << "=" >>, << " ", ":", " " >> }

SanitizeQuotes == { << >>, << "\"" >>, << "'" >>, << BackQuote >> }

SanitizeValues ==
    { Rep("A", 16),
      Rep("A", 15),
      SkText(32),
      SkText(8),
      SkText(50),
      JwtText,
      JwtText \o << "/" >> \o Rep("d", 9),
      EyJ \o JwtText \o << "-" >>,
      EyJ \o Rep("a", 10) \o << "." >> \o Rep("b", 10),
      << "A", "K", "I", "A" >> \o Rep("0", 16),
      << "A", "I", "z", "a" >> \o Rep("x", 35),
      << "g", "h", "p", "_" >> \o Rep("x", 36),
      << "g", "i", "t", "h", "u", "b", "_", "p", "a", "t", "_" >> \o Rep("x", 82),
      << "x", "o", "x", "b", "-" >> \o Rep("1", 10),
      << "s", "k", "_", "l", "i", "v", "e", "_" >> \o Rep("x", 24),
      << "B", "e", "a", "r", "e", "r", " " >> \o Rep("x", 20) }

SanitizePosts == { << >>, << "\n", "e", "n", "d" >> }

SanitizeArgs ==
    { [f |-> "_sanitize_text", stage |-> "args",
       name |-> n, sep |-> o, q |-> q, value |-> v, post |-> p,
       s |-> n \o o \o q \o v \o q \o p] :
        n \in SanitizeNames, o \in SanitizeSeps, q \in SanitizeQuotes,
        v \in SanitizeValues, p \in SanitizePosts }

SanitizeInit == Parked /\ probe \in SanitizeArgs

\* (t, c) = _sanitize_text(s)
SanitizeOnce ==
    /\ probe.stage = "args"
    /\ LET r == _sanitize_text_chars(probe.s)
       IN  probe' = [f |-> "_sanitize_text", stage |-> "once",
                     name |-> probe.name, sep |-> probe.sep, q |-> probe.q,
                     value |-> probe.value, post |-> probe.post, s |-> probe.s,
                     out |-> r.text, changed |-> r.changed]
    /\ UNCHANGED mainVars

\* _sanitize_text(t)
SanitizeAgain ==
    /\ probe.stage = "once"
    /\ LET r == _sanitize_text_chars(probe.out)
       IN  probe' = [f |-> "_sanitize_text", stage |-> "twice",
                     s |-> probe.s, out |-> probe.out,
                     changed |-> probe.changed,
                     out2 |-> r.text, changed2 |-> r.changed]
    /\ UNCHANGED mainVars

SanitizeNext == SanitizeOnce \/ SanitizeAgain

SanitizeSpec == SanitizeInit /\ [][SanitizeNext]_vars

\* The sequences over S of length lo to hi.
Seqs(S, lo, hi) == UNION { [1..k -> S] : k \in lo..hi }

\* Texts of the semantic pass: words and secrets the service flags.
ProbeTexts(lo) == Seqs({"w", "L"}, lo, MaxTextLen)

\* _chunk_text(s, max_chars, overlap) with 0 <= overlap < max_chars
ChunkArgs ==
    { a \in { [f |-> "_chunk_text", stage |-> "args", s |-> s,
               max_chars |-> m, overlap |-> o] :
                 s \in ProbeTexts(0), m \in 1..MaxTextLen,
                 o \in 0..(MaxTextLen - 1) } :
        a.overlap < a.max_chars }

ChunkInit == Parked /\ probe \in ChunkArgs

ChunkApply ==
    /\ probe.stage = "args"
    /\ probe' = [f |-> "_chunk_text", stage |-> "done", s |-> probe.s,
                 max_chars |-> probe.max_chars, overlap |-> probe.overlap,
                 chunks |-> _chunk_text(probe.s, probe.max_chars,
                                        probe.overlap)]
    /\ UNCHANGED mainVars

ChunkNext == ChunkApply

ChunkSpec == ChunkInit /\ [][ChunkNext]_vars

\* One finding of the service on one chunk of a file (lines 354-373), and
\* the rewrite of the file by the ranges it gives (line 381).  The file is
\* cut the way the pass cuts it, or kept whole.
FindingCuts ==
    { [max_chars |-> ChunkMax, overlap |-> ChunkOverlap],
      [max_chars |-> MaxTextLen, overlap |-> 0] }

SnippetKinds == {"none", "span", "secret", "words", "absent"}

\* What the service declares as the snippet of the span [start, end).
SnippetOf(kind, chunk, start, end) ==
    IF kind = "span" /\ 0 <= start /\ start < end /\ end <= Len(chunk)
    THEN Slice(chunk, start, end)
    ELSE IF kind = "secret" THEN << "L" >>
    ELSE IF kind = "words" THEN << "w", "w" >>
    ELSE IF kind = "absent" THEN << "S", "S" >>
    ELSE << >>

FindingSpans ==
    { se \in (0..MaxTextLen) \X (0..MaxTextLen) : se[1] <= se[2] }

FindingArgsOf(t, chunks) ==
    { [f |-> "finding", stage |-> "args", text |-> t,
       base |-> chunks[k].base, chunk |-> chunks[k].chunk,
       finding |-> [start |-> se[1], end |-> se[2],
                    snippet |-> SnippetOf(sn, chunks[k].chunk, se[1], se[2])]] :
        k \in DOMAIN chunks, se \in FindingSpans, sn \in SnippetKinds }

FindingInit ==
    /\ Parked
    /\ \E t \in ProbeTexts(1), c \in FindingCuts :
          probe \in FindingArgsOf(t, _chunk_text(t, c.max_chars, c.overlap))

\* lines 355-373 for the finding
Reconcile ==
    /\ probe.f = "finding" /\ probe.stage = "args"
    /\ probe' = [f |-> "finding", stage |-> "ranges", text |-> probe.text,
                 base |-> probe.base, chunk |-> probe.chunk,
                 finding |-> probe.finding,
                 ranges |-> FindingRanges(probe.base, probe.chunk,
                                          probe.finding)]
    /\ UNCHANGED mainVars

\* line 381 with the ranges of the finding
Rewrite ==
    /\ probe.f = "finding" /\ probe.stage = "ranges"
    /\ probe' = [f |-> "finding", stage |-> "rewritten", text |-> probe.text,
                 base |-> probe.base, chunk |-> probe.chunk,
                 finding |-> probe.finding, ranges |-> probe.ranges,
                 new_text |-> _apply_replacements_by_ranges(
                                 probe.text, probe.ranges, << "Q" >>)]
    /\ UNCHANGED mainVars

FindingNext == Reconcile \/ Rewrite

FindingSpec == FindingInit /\ [][FindingNext]_vars

\* _apply_replacements_by_ranges(text, ranges, replacement) for the ranges
\* of a file, each within the text, in the order the chunks gave them.
RangesIn(n) == { r \in (0..n) \X (0..n) : r[1] < r[2] }

ApplyArgsOf(t) ==
    { [f |-> "_apply_replacements_by_ranges", stage |-> "args",
       text |-> t, ranges |-> rs] :
         rs \in Seqs(RangesIn(Len(t)), 1, MaxRanges) }

ApplyInit == Parked /\ \E t \in ProbeTexts(1) : probe \in ApplyArgsOf(t)

ApplyRanges ==
    /\ probe.stage = "args"
    /\ probe' = [f |-> "_apply_replacements_by_ranges", stage |-> "done",
                 text |-> probe.text, ranges |-> probe.ranges,
                 new_text |-> _apply_replacements_by_ranges(
                                 probe.text, probe.ranges, << "Q" >>)]
    /\ UNCHANGED mainVars

ApplyNext == ApplyRanges

ApplySpec == ApplyInit /\ [][ApplyNext]_vars

\* generate_commit_message given what git lists as staged (a rename is
\* listed with the letter R and a score), the results of the two passes,
\* and what context gathering and the message service do.
Entry(st, p) == [status |-> st, path |-> p]

ComposeStaged ==
    { << >>,
      << Entry("A", "f1") >>,
      << Entry("M", "f1") >>,
      << Entry("D", "f1") >>,
      << Entry("R100", "f1 f2") >>,
      << Entry("A", "f1"), Entry("M", "f2") >>,
      << Entry("M", "f1"), Entry("D", "f2") >>,
      << Entry("A", "f1"), Entry("A", "f2") >> }

ComposeSanitized == { << >>, << [path |-> "f1", replaced |-> TRUE] >> }

ComposeLlmResults ==
    { << >>,
      << [path |-> "f2", replaced_count |-> 1, notes |-> << "finding" >>] >>,
      << [path |-> "f2", replaced_count |-> 0,
          notes |-> << "finding", "hash-object failed" >>] >> }

ComposeTexts ==
    ServiceTexts
    \cup { << Blank >>,
           << Line("feat: subject", 13) >>,
           << Line("feat: subject", 13), Blank, Line("body", 4) >>,
           << Line("feat: subject", 13), Blank, Blank, Line("body", 4) >>,
           << Fence, Line("feat: subject", 13), Line("body", 4), Fence >>,
           << Line("feat: long subject", 73), Blank, Line("body", 4) >> }

ComposeReplies ==
    { [kind |-> k, lines |-> << >>] : k \in {"client_error", "raise"} }
    \cup { [kind |-> "text", lines |-> t] : t \in ComposeTexts }

ComposeArgs ==
    { [f |-> "generate_commit_message", stage |-> "args", staged |-> st,
       sanitized |-> sa, llm_results |-> lr, ctx |-> cx, reply |-> rp] :
        st \in ComposeStaged, sa \in ComposeSanitized,
        lr \in ComposeLlmResults, cx \in ContextOutcomes,
        rp \in ComposeReplies }

ComposeInit == Parked /\ probe \in ComposeArgs

ComposeMessage ==
    /\ probe.stage = "args"
    /\ probe' = [f |-> "generate_commit_message", stage |-> "done",
                 staged |-> probe.staged, sanitized |-> probe.sanitized,
                 llm_results |-> probe.llm_results, ctx |-> probe.ctx,
                 reply |-> probe.reply,
                 r |-> MessageFor(probe.staged, probe.sanitized,
                                  probe.llm_results, probe.ctx, probe.reply)]
    /\ UNCHANGED mainVars

ComposeNext == ComposeMessage

ComposeSpec == ComposeInit /\ [][ComposeNext]_vars

\* The loop body of llm_scan_staged_secrets_in_index on one staged text
\* file, the service behaving as beh says on each chunk; the blob is read
\* and written without failure.
ScanInit ==
    /\ Parked
    /\ \E t \in ProbeTexts(1), beh \in [1..3 -> Behaviours] :
          probe = [f |-> "llm_scan", stage |-> "args", text |-> t,
                   beh |-> beh]

ScanFile ==
    /\ probe.f = "llm_scan" /\ probe.stage = "args"
    /\ probe' = [f |-> "llm_scan", stage |-> "done", text |-> probe.text,
                 beh |-> probe.beh,
                 chunks |-> _chunk_text(probe.text, ChunkMax, ChunkOverlap),
                 r |-> LlmFile([index |-> Tree([oid |-> probe.text,
                                                mode |-> "100644"], NoFile),
                                worktree |-> Tree(NoFile, NoFile),
                                results |-> << >>, sent |-> {},
                                ran |-> {}, nchunks |-> 0],
                               "f1", FALSE, probe.beh, "ok")]
    /\ UNCHANGED mainVars

ScanNext == ScanFile

ScanSpec == ScanInit /\ [][ScanNext]_vars

(***************************************************************************)
(* Two invocations of auto_commit on one repository (workflows.py lines    *)
(* 54-110), their steps interleaved in any order.  Nothing in the code      *)
(* takes a lock, so each step of one run may come between two steps of the *)
(* other.  probe holds the repository the two runs share and, for each     *)
(* run, where it stands; no collaborator fails.                            *)
(***************************************************************************)
Runs == {"A", "B"}

Other(r) == IF r = "A" THEN "B" ELSE "A"

NoRun == [pc |-> "idle", todo |-> << >>, sanitized |-> << >>,
          llm_results |-> << >>]

RaceInit ==
    /\ Parked
    /\ \E wt \in InitWorktrees :
          probe = [f |-> "race", worktree |-> wt, index |-> EmptyTree,
                   commits |-> << >>, run |-> [r \in Runs |-> NoRun],
                   overlapped |-> FALSE]

\* Run r takes a step that leaves the shared repository as rp says and the
\* run as rn says; the runs overlap when the other one is under way.
RaceTake(r, rp, rn) ==
    /\ probe' = [probe EXCEPT
                    !.worktree = rp.worktree,
                    !.index = rp.index,
                    !.commits = rp.commits,
                    !.run[r] = rn,
                    !.overlapped =
                        @ \/ probe.run[Other(r)].pc \notin {"idle", "done"}]
    /\ UNCHANGED mainVars

RaceRepo == [worktree |-> probe.worktree, index |-> probe.index,
             commits |-> probe.commits]

\* line 56: repo.git.add(A=True)
RaceStage(r) ==
    /\ probe.f = "race" /\ probe.run[r].pc = "idle"
    /\ RaceTake(r, [RaceRepo EXCEPT !.index = StageAll(probe.worktree)],
                [probe.run[r] EXCEPT !.pc = "check"])

\* lines 59-61
RaceCheckStaged(r) ==
    /\ probe.f = "race" /\ probe.run[r].pc = "check"
    /\ RaceTake(r, RaceRepo,
                [probe.run[r] EXCEPT
                   !.pc = IF anything_staged(probe.index, probe.commits, FALSE)
                          THEN "regex_begin" ELSE "done"])

\* sanitize_staged_secrets_in_index, lines 155-160
RaceRegexBegin(r) ==
    /\ probe.f = "race" /\ probe.run[r].pc = "regex_begin"
    /\ RaceTake(r, RaceRepo,
                [probe.run[r] EXCEPT
                   !.pc = "regex",
                   !.todo = StagedPaths(probe.index, probe.commits, FALSE)])

\* sanitize_staged_secrets_in_index, lines 165-221: one staged path; the
\* pass returns after the last one.
RaceRegexStep(r) ==
    /\ probe.f = "race" /\ probe.run[r].pc = "regex"
    /\ IF probe.run[r].todo = << >>
          THEN RaceTake(r, RaceRepo, [probe.run[r] EXCEPT !.pc = "llm_begin"])
          ELSE LET res == RegexFile([index |-> probe.index,
                                     worktree |-> probe.worktree,
                                     modified |-> probe.run[r].sanitized,
                                     seen |-> {}, ran |-> {}],
                                    Head(probe.run[r].todo), FALSE, "ok")
               IN  RaceTake(r, [RaceRepo EXCEPT !.index = res.index],
                            [probe.run[r] EXCEPT
                               !.todo = Tail(@),
                               !.sanitized = res.modified])

\* llm_scan_staged_secrets_in_index, lines 292-302
RaceLlmBegin(r) ==
    /\ probe.f = "race" /\ probe.run[r].pc = "llm_begin"
    /\ RaceTake(r, RaceRepo,
                [probe.run[r] EXCEPT
                   !.pc = "llm",
                   !.todo = StagedPaths(probe.index, probe.commits, FALSE)])

\* llm_scan_staged_secrets_in_index, lines 304-420: one staged path; the
\* pass returns after the last one.
RaceLlmStep(r) ==
    /\ probe.f = "race" /\ probe.run[r].pc = "llm"
    /\ IF probe.run[r].todo = << >>
          THEN RaceTake(r, RaceRepo, [probe.run[r] EXCEPT !.pc = "commit"])
          ELSE \E b \in Behaviours :
                 LET res == LlmFile([index |-> probe.index,
                                     worktree |-> probe.worktree,
                                     results |-> probe.run[r].llm_results,
                                     sent |-> {}, ran |-> {}, nchunks |-> 0],
                                    Head(probe.run[r].todo), FALSE,
                                    [k \in 1..3 |-> b], "ok")
                 IN  RaceTake(r, [RaceRepo EXCEPT !.index = res.index],
                              [probe.run[r] EXCEPT
                                 !.todo = Tail(@),
                                 !.llm_results = res.results])

\* line 109: repo.index.commit(commit_message)
RaceCommit(r) ==
    /\ probe.f = "race" /\ probe.run[r].pc = "commit"
    /\ RaceTake(r, [RaceRepo EXCEPT
                      !.commits = Append(@, [tree |-> probe.index, by |-> r])],
                [probe.run[r] EXCEPT !.pc = "done"])

RaceNext ==
    \E r \in Runs :
        \/ RaceStage(r)
        \/ RaceCheckStaged(r)
        \/ RaceRegexBegin(r)
        \/ RaceRegexStep(r)
        \/ RaceLlmBegin(r)
        \/ RaceLlmStep(r)
        \/ RaceCommit(r)

RaceSpec == RaceInit /\ [][RaceNext]_vars

\* The modelled paths that carry one of the root-level hint names of
\* _collect_nearby_context (lines 503-519): f2 stands for a file such as
\* requirements.txt at the root of the repository.
HintPaths == {"f2"}

\* _collect_nearby_context: the hint files that exist, read from the
\* working tree by _read_small_file (lines 522-526).
_collect_nearby_context(wt) ==
    { wt[p].data : p \in { q \in HintPaths : wt[q] # NoFile } }

\* _staged_patch: the file content git diff --cached -U2 prints, which is
\* the staged text of every path whose staged blob differs from HEAD's (a
\* blob with a NUL byte is reported without its content).
_staged_patch(idx, cs) ==
    { idx[p].oid : p \in { q \in Paths : /\ idx[q] # NoFile
                                        /\ idx[q] # HeadTree(cs)[q]
                                        /\ "Z" \notin Range(idx[q].oid) } }

\* _chunk_text (lines 250-261) statement by statement, for the calls
\* llm_scan_staged_secrets_in_index makes: any text, any positive
\* max_chars_per_call, the overlap it fixes.  One action is one turn of
\* the while loop.
LoopInit ==
    /\ Parked
    /\ \E t \in ProbeTexts(0), m \in 1..MaxTextLen :
          probe = [f |-> "_chunk_text loop", stage |-> "args", s |-> t,
                   max_chars |-> m, overlap |-> ChunkOverlap,
                   i |-> 0, out |-> << >>]

\* lines 252-254
LoopEnter ==
    /\ probe.f = "_chunk_text loop" /\ probe.stage = "args"
    /\ probe' = IF Len(probe.s) <= probe.max_chars
                THEN [probe EXCEPT !.stage = "returned",
                                   !.out = << [base |-> 0, chunk |-> probe.s] >>]
                ELSE [probe EXCEPT !.stage = "while"]
    /\ UNCHANGED mainVars

\* lines 255-261
LoopTurn ==
    /\ probe.f = "_chunk_text loop" /\ probe.stage = "while"
    /\ Len(probe.out) < MaxChunks
    /\ LET n == Len(probe.s)
           j == Min(probe.i + probe.max_chars, n)
           out == Append(probe.out,
                         [base |-> probe.i, chunk |-> Slice(probe.s, probe.i, j)])
       IN  probe' = IF probe.i >= n THEN [probe EXCEPT !.stage = "returned"]
                    ELSE IF j = n
                    THEN [probe EXCEPT !.stage = "returned", !.out = out]
                    ELSE [probe EXCEPT !.out = out,
                                       !.i = Max(0, j - probe.overlap)]
    /\ UNCHANGED mainVars

LoopNext == LoopEnter \/ LoopTurn

LoopSpec == LoopInit /\ [][LoopNext]_vars

(***************************************************************************)
(* Properties.                                                             *)
(***************************************************************************)
Finished == pc \in {"returned", "raised"}

\* HEAD's tree when the invocation started.
HeadTree0 == HeadTree(SubSeq(commits, 1, head0))

Committed == Len(commits) > head0

\* stage-all has run and has not raised.
StageDone == "add" \in calls /\ ~(exc = "GitCommandError")

\* The index right after stage-all differs from HEAD.
SomethingStaged == StageDone /\ staged0 # HeadTree0

CommitFailed == "commit" \in calls /\ ~Committed

HasPart(msg, kind) == \E i \in DOMAIN msg : msg[i].kind = kind

\* The paths whose staged blob a pass replaced.
LlmRewritten ==
    { llm_results[i].path :
        i \in { k \in DOMAIN llm_results : llm_results[k].replaced_count > 0 } }

RewrittenPaths == PathsOf(sanitized) \cup LlmRewritten

\* C1: in every invocation on a valid repository where stage-all leaves
\* something staged and the commit operation itself does not fail, a commit
\* object is created, whatever fails in the semantic pass and the composer.
C1_CommitAlwaysHappens ==
    (Finished /\ repo_path = "repo" /\ SomethingStaged /\ ~CommitFailed)
        => Committed

\* C2: neither sanitization pass writes to the working tree: during an
\* invocation the working tree is what it was at its start, and for every
\* path the regex pass or the semantic pass rewrote, the working-tree file
\* is unchanged while the staged content differs from the content staged
\* by stage-all.
C2_WorktreeUntouched ==
    pc # "idle" =>
        /\ worktree = wt0
        /\ \A p \in RewrittenPaths :
              /\ worktree[p] = wt0[p]
              /\ index[p] # NoFile
              /\ index[p].oid # staged0[p].oid

\* C2 witness: an invocation has returned after the regex pass rewrote one
\* path and the semantic pass rewrote one.
C2_Witness ==
    /\ pc = "returned"
    /\ sanitized # << >>
    /\ LlmRewritten # {}

\* C3: an ok=false outcome means nothing was committed: whenever the
\* dispatcher holds an ok=false outcome, HEAD is the commit it was when the
\* invocation started.
C3_OkFalseNothingCommitted ==
    ("ok" \in DOMAIN reported /\ ~reported.ok) => ~Committed

\* C4: every invocation ends by returning a dict with ok, path and exactly
\* one of message, warn and error; no exception escapes auto_commit.
C4_AlwaysReturnsDict ==
    /\ pc # "raised"
    /\ pc = "returned" =>
          /\ {"ok", "path"} \subseteq DOMAIN result
          /\ Cardinality(DOMAIN result \cap {"message", "warn", "error"}) = 1

\* C5: after an invocation that created a commit and whose push failed,
\* with no working-tree edit in between, the next invocation on the
\* repository finds nothing staged after stage-all: it does not get past
\* CHECK_STAGED and creates no further commit.
C5_ReinvocationIdempotent ==
    (/\ runNo >= 2
     /\ pc # "idle"
     /\ repo_path = "repo"
     /\ prev.committed /\ prev.pushFailed /\ ~prev.edited)
        => /\ ~Committed
           /\ calls \cap {"regex", "llm", "compose", "commit", "push"} = {}

\* C6: when the commit succeeds and the push then fails in any way,
\* auto_commit returns ok=true, the commit exists, and the returned message
\* includes a push-failure warning.
C6_PushFailureWarned ==
    (Finished /\ Committed /\ PushFailed(pushOutcome))
        => /\ pc = "returned"
           /\ result.ok
           /\ "message" \in DOMAIN result
           /\ HasPart(result.message, "push_error")

\* C7: with zero remotes, what auto_commit returns after it committed is
\* ok=true with a warning about the missing remote, and neither a push nor a
\* fetch was attempted.
C7_NoRemoteWarned ==
    (pc = "returned" /\ Committed /\ remotes = << >>)
        => /\ result.ok
           /\ "warn" \in DOMAIN result
           /\ calls \cap {"fetch", "push"} = {}

\* C8: when a remote is configured and the fetch fails, auto_commit returns
\* ok=true with warn straight away: no stage-all, sanitization, commit or
\* push follows the failed fetch.
C8_FetchFailureReturnsWarn ==
    (pc # "idle" /\ fetchOutcome \in FetchOutcomes \ {"ok"})
        => /\ pc = "returned"
           /\ result.ok
           /\ "warn" \in DOMAIN result
           /\ calls = {"fetch"}

C10_BinarySkipped ==
    \A p \in Paths :
        (staged0[p] # NoFile /\ "Z" \in Range(staged0[p].oid))
            => /\ index[p] = staged0[p]
               /\ \A c \in regexCalls \cup llmCalls : c[1] # p

\* C10 witness: both passes have run over a staging area that holds a file
\* with a NUL byte and a file the regex pass scanned.
C10_Witness ==
    /\ pc = "returned"
    /\ "llm" \in calls
    /\ \E p \in Paths : staged0[p] # NoFile /\ "Z" \in Range(staged0[p].oid)
    /\ regexCalls # {}

\* The text of the call is one key/value occurrence: a name of two or more
\* name characters, an operator between optional blanks, and a value of 16
\* or more characters of the value alphabet, bare or between two equal
\* quotes.
KeyValueOccurrence ==
    /\ probe.f = "_sanitize_text"
    /\ probe.stage = "once"
    /\ Len(probe.name) >= 2 /\ Range(probe.name) \subseteq NameCh
    /\ probe.sep # << >>
    /\ probe.q = << >> \/ probe.q[1] \in Quotes1
    /\ Len(probe.value) >= 16 /\ Range(probe.value) \subseteq ValCh

\* C11: for a text holding a key/value occurrence whose value has at least
\* 16 characters of the value alphabet, _sanitize_text replaces only the
\* value by api_key, leaves the key, the operator, the blanks and both
\* quotes as they were, and reports changed = true.
C11_OnlyValueReplaced ==
    KeyValueOccurrence
        => /\ probe.out = probe.name \o probe.sep \o probe.q \o ApiKey
                           \o probe.q \o probe.post
           /\ probe.changed

\* C12: _sanitize_text is idempotent: for (t, c) = _sanitize_text(s),
\* _sanitize_text(t) returns (t, False).
C12_SanitizeIdempotent ==
    (probe.f = "_sanitize_text" /\ probe.stage = "twice")
        => probe.out2 = probe.out /\ ~probe.changed2

\* C13: _chunk_text of a string of length L with maximum M and overlap O,
\* 0 <= O < M: if L <= M the result is the single chunk (0, s); otherwise
\* the starts increase strictly from 0, every chunk has at most M
\* characters and equals s[start : start + len], every chunk starts no
\* later than the end of the chunk before it, and the last chunk ends at L.
C13_ChunksCover ==
    (probe.f = "_chunk_text" /\ probe.stage = "done") =>
        LET s == probe.s
            cs == probe.chunks
            End(k) == cs[k].base + Len(cs[k].chunk)
        IN  IF Len(s) <= probe.max_chars
            THEN cs = << [base |-> 0, chunk |-> s] >>
            ELSE /\ cs # << >>
                 /\ cs[1].base = 0
                 /\ \A k \in DOMAIN cs :
                       /\ Len(cs[k].chunk) <= probe.max_chars
                       /\ cs[k].chunk = Slice(s, cs[k].base, End(k))
                 /\ \A k \in 2..Len(cs) :
                       /\ cs[k - 1].base < cs[k].base
                       /\ cs[k].base <= End(k - 1)
                 /\ End(Len(cs)) = Len(s)

\* C13 witness: a text was cut in three or more chunks that overlap.
C13_Witness ==
    /\ probe.f = "_chunk_text"
    /\ probe.stage = "done"
    /\ probe.overlap >= 1
    /\ Len(probe.chunks) >= 3

\* C14: a finding wholly inside one chunk is recovered: for a finding with
\* 0 <= start < end <= len(chunk) whose snippet is chunk[start:end] and has
\* 8 or more characters, the pass replaces exactly the file range
\* [base + start, base + end), and the file text there is the snippet.
C14_FindingRecovered ==
    (probe.f = "finding" /\ probe.stage = "rewritten") =>
        LET fd == probe.finding
            lo == probe.base + fd.start
            hi == probe.base + fd.end
        IN  (/\ 0 <= fd.start /\ fd.start < fd.end
             /\ fd.end <= Len(probe.chunk)
             /\ fd.snippet = Slice(probe.chunk, fd.start, fd.end)
             /\ SumWidth(LexWidth, fd.snippet) >= MinFlaggedLen)
            => /\ probe.ranges = << << lo, hi >> >>
               /\ Slice(probe.text, lo, hi) = fd.snippet
               /\ probe.new_text = Slice(probe.text, 0, lo) \o << "Q" >>
                                   \o Slice(probe.text, hi, Len(probe.text))

\* The positions (from 0) of a text of n characters that the ranges cover.
CoveredBy(ranges, n) ==
    { i \in 0..(n - 1) :
        \E k \in DOMAIN ranges : ranges[k][1] <= i /\ i < ranges[k][2] }

\* The text from position i on with every maximal covered region replaced
\* by one redaction token.
RECURSIVE RegionsRedacted(_, _, _)
RegionsRedacted(text, i, cov) ==
    IF i >= Len(text) THEN << >>
    ELSE (IF i \notin cov THEN << text[i + 1] >>
          ELSE IF (i - 1) \in cov THEN << >> ELSE << "Q" >>)
         \o RegionsRedacted(text, i + 1, cov)

\* A text with every run of redaction tokens shortened to one token.
RECURSIVE TokenRunsCollapsed(_)
TokenRunsCollapsed(t) ==
    IF Len(t) <= 1 THEN t
    ELSE IF t[1] = "Q" /\ t[2] = "Q" THEN TokenRunsCollapsed(Tail(t))
    ELSE << t[1] >> \o TokenRunsCollapsed(Tail(t))

\* C19: the rewrite of a file by the ranges merged across its chunks, the
\* same or overlapping ranges included, keeps every character outside the
\* union of the ranges unchanged and in order, and puts redaction tokens
\* only in place of each maximal covered region.
C19_RangesAppliedSafely ==
    (probe.f = "_apply_replacements_by_ranges" /\ probe.stage = "done") =>
        TokenRunsCollapsed(probe.new_text)
            = RegionsRedacted(probe.text, 0,
                              CoveredBy(probe.ranges, Len(probe.text)))

\* C20: a finding gives a replacement range only if its span satisfies
\* 0 <= start < end < len(chunk) and either its snippet is found at the span
\* (the range is the span) or the snippet's first occurrence in the chunk
\* gives the range; a finding whose snippet is found neither at the span nor
\* elsewhere in the chunk gives none, and a range is never given to flagged
\* text of fewer than 8 characters.
C20_OnlyValidatedFindings ==
    (probe.f = "finding" /\ probe.stage = "ranges") =>
        LET fd == probe.finding
            c == probe.chunk
            valid == 0 <= fd.start /\ fd.start < fd.end /\ fd.end < Len(c)
            atSpan == valid /\ Contains(Slice(c, fd.start, fd.end), fd.snippet)
            elsewhere == Contains(c, fd.snippet)
            first == Find(c, fd.snippet)
        IN  /\ probe.ranges # << >> =>
                 /\ valid
                 /\ \/ atSpan /\ probe.ranges = << << probe.base + fd.start,
                                                      probe.base + fd.end >> >>
                    \/ /\ ~atSpan /\ elsewhere
                       /\ probe.ranges =
                             << << probe.base + first,
                                   probe.base + first + Len(fd.snippet) >> >>
            /\ (~atSpan /\ ~elsewhere) => probe.ranges = << >>
            /\ \A k \in DOMAIN probe.ranges :
                 SumWidth(LexWidth,
                          Slice(c, probe.ranges[k][1] - probe.base,
                                probe.ranges[k][2] - probe.base))
                     >= MinFlaggedLen

\* The message service raised or answered empty text, after the staged
\* files were listed and the context was gathered.
ServiceGaveNothing ==
    /\ probe.f = "generate_commit_message"
    /\ probe.stage = "done"
    /\ probe.staged # << >>
    /\ probe.ctx = "ok"
    /\ \/ probe.reply.kind # "text"
       \/ \A i \in DOMAIN probe.reply.lines : probe.reply.lines[i] = Blank

Letters(staged, letter) ==
    Cardinality({ i \in DOMAIN staged : staged[i].status = letter })

C16_AcceptedMessageShape ==
    (/\ probe.f = "generate_commit_message"
     /\ probe.stage = "done"
     /\ probe.staged # << >>
     /\ probe.ctx = "ok"
     /\ probe.reply.kind = "text"
     /\ Normalize(probe.reply.lines) # << >>)
        => LET msg == probe.r.msg
           IN  /\ Fence \notin Range(msg)
               /\ msg[1] # Blank
               /\ msg[1].len >= 1 /\ msg[1].len <= SubjectMax
               /\ Len(msg) > 1 =>
                     /\ Len(msg) >= 3
                     /\ msg[2] = Blank
                     /\ msg[3] # Blank

SecuritySubjects ==
    { "chore(security): sanitize secrets and commit changes",
      "chore(security): long subject" }

\* C17: whenever a pass sanitized a file in a run, the message of the run's
\* commit has the marker (security) in its subject and mentions the
\* sanitization in its body.
C17_SecurityMarked ==
    (pc \in {"push", "returned"} /\ Committed /\ RewrittenPaths # {})
        => /\ commit_message[1].t \in SecuritySubjects
           /\ \E i \in 2..Len(commit_message) :
                 commit_message[i].t = "- sanitized secrets in n file(s)"

\* C18: the semantic pass works on the content the regex pass left: for
\* every path the regex pass rewrote, no text the semantic pass sends to the
\* service and no blob it leaves staged holds a secret the regex pass
\* redacts.
C18_SemanticPassSeesRedacted ==
    \A p \in PathsOf(sanitized) :
        /\ \A c \in llmCalls : c[1] = p => "S" \notin Range(c[2])
        /\ index[p] # NoFile => "S" \notin Range(index[p].oid)

\* A step of the regex pass on a path whose text held a secret the
\* patterns match, and that did not report the path: hash-object or
\* update-index failed.
RegexWriteFailed ==
    /\ pc = "regex"
    /\ todo # << >>
    /\ \E c \in regexCalls' : c[1] = Head(todo) /\ "S" \in Range(c[2])
    /\ sanitized' = sanitized

\* A step of the semantic pass that reported hash-object failed or
\* update-index failed.
LlmWriteFailed ==
    /\ pc = "llm"
    /\ todo # << >>
    /\ Len(llm_results') = Len(llm_results) + 1
    /\ llm_results'[Len(llm_results')].replaced_count = 0

\* C21: if hash-object or update-index fails for a file in either pass, the
\* index is what it was before the file was visited, no exception is
\* raised, and the pass goes on with the remaining staged files.
C21_WriteFailureLeavesEntry ==
    [][ (RegexWriteFailed \/ LlmWriteFailed)
            => /\ index' = index
               /\ exc' = exc
               /\ pc' = pc
               /\ todo' = Tail(todo) ]_vars

\* C21 witness: the regex pass is over, it read a secret in a staged file
\* and the file's entry is the one stage-all made; and the semantic pass
\* has reported a failed write.
C21_Witness ==
    \/ /\ pc = "llm_begin"
       /\ \E q \in Paths :
             /\ staged0[q] # NoFile
             /\ << q, staged0[q].oid >> \in regexCalls
             /\ "S" \in Range(staged0[q].oid)
             /\ q \notin PathsOf(sanitized)
             /\ index[q] = staged0[q]
    \/ /\ pc = "compose"
       /\ \E i \in DOMAIN llm_results : llm_results[i].replaced_count = 0

\* The ranges the findings of the chunks k to the last give, the chunks
\* whose request failed giving none.
RECURSIVE RangesOfAnswered(_, _, _)
RangesOfAnswered(chunks, beh, k) ==
    IF k > Len(chunks) THEN << >>
    ELSE (IF beh[k] \in ServiceFailures THEN << >>
          ELSE FindingsRanges(chunks[k].base, chunks[k].chunk,
                              ItemsFor(chunks[k].chunk, 1, beh[k] = "exact")))
         \o RangesOfAnswered(chunks, beh, k + 1)

\* C22: when the request for a chunk raises or its response is no JSON,
\* the chunk gives no finding, every chunk of the file is still sent, the
\* findings of the other chunks are applied to the staged blob, and a
\* request that raised is a note in the file's entry of the results.
C22_ChunkFailureContained ==
    (/\ probe.f = "llm_scan"
     /\ probe.stage = "done"
     /\ \E k \in DOMAIN probe.chunks : probe.beh[k] \in ServiceFailures)
        => /\ probe.r.sent = { << "f1", probe.chunks[k].chunk >> :
                                 k \in DOMAIN probe.chunks }
           /\ probe.r.index["f1"].oid =
                 _apply_replacements_by_ranges(
                     probe.text, RangesOfAnswered(probe.chunks, probe.beh, 1),
                     << "Q" >>)
           /\ (\E k \in DOMAIN probe.chunks : probe.beh[k] = "raise")
                 => \E i \in DOMAIN probe.r.results :
                       /\ probe.r.results[i].path = "f1"
                       /\ "LLM error on chunk"
                             \in Range(probe.r.results[i].notes)

\* Commit i of the shared repository holds, in a text file at path q, a
\* secret the patterns of the regex pass match.
SecretCommitted(i, q) ==
    /\ probe.commits[i].tree[q] # NoFile
    /\ _is_probably_text(probe.commits[i].tree[q].oid)
    /\ "S" \in Range(probe.commits[i].tree[q].oid)

WithinChunk(cs, k, a, n) ==
    cs[k].base <= a /\ a + n <= cs[k].base + Len(cs[k].chunk)

\* C24: with overlap O between consecutive chunks, every part of the text
\* of at most O characters lies wholly within one of the chunks that
\* _chunk_text returns, also a part that spans the end of a chunk.
C24_OverlapHoldsShortParts ==
    (probe.f = "_chunk_text" /\ probe.stage = "done") =>
        \A n \in 1..probe.overlap :
            \A a \in 0..(Len(probe.s) - n) :
                \E k \in DOMAIN probe.chunks :
                    /\ WithinChunk(probe.chunks, k, a, n)
                    /\ Slice(probe.chunks[k].chunk, a - probe.chunks[k].base,
                             a - probe.chunks[k].base + n)
                          = Slice(probe.s, a, a + n)

\* C24 witness: a part as long as the overlap starts in the first chunk
\* and ends after it.
C24_Witness ==
    /\ probe.f = "_chunk_text"
    /\ probe.stage = "done"
    /\ probe.overlap >= 2
    /\ Len(probe.chunks) >= 2
    /\ \E a \in 0..(Len(probe.s) - probe.overlap) :
          /\ a < Len(probe.chunks[1].chunk)
          /\ a + probe.overlap > Len(probe.chunks[1].chunk)

\* C25: a rewrite of a staged blob by either pass changes nothing in the
\* index but the object id of the rewritten path: the path's entry keeps
\* the mode it had and the entries of the other paths are unchanged.
C25_RewriteKeepsModeAndOthers ==
    [][ (pc \in {"regex", "llm"} /\ todo # << >> /\ index' # index)
            => /\ \A q \in Paths \ {Head(todo)} : index'[q] = index[q]
               /\ index[Head(todo)] # NoFile
               /\ index'[Head(todo)] # NoFile
               /\ index'[Head(todo)].mode = index[Head(todo)].mode
               /\ index'[Head(todo)].oid # index[Head(todo)].oid ]_vars

\* C25 witness: a pass has rewritten the blob of an executable file while
\* another file was staged too.
C25_Witness ==
    /\ pc \in {"regex", "llm"}
    /\ \E q \in Paths :
          /\ staged0[q] # NoFile /\ index[q] # NoFile
          /\ index[q].oid # staged0[q].oid
          /\ index[q].mode = "100755"
          /\ \E o \in Paths \ {q} : index[o] # NoFile

\* Every hash-object and update-index of the invocation succeeded: the
\* regex pass reported every file in which it found a secret, and the
\* semantic pass reported no failed write.
NoWriteFailed ==
    /\ \A c \in regexCalls :
          "S" \in Range(c[2]) => c[1] \in PathsOf(sanitized)
    /\ \A i \in DOMAIN llm_results : llm_results[i].replaced_count > 0

\* C26: in a single run in which every hash-object and update-index
\* succeeds, the commit holds no secret the regex pass detects: for every
\* staged text path that is not deleted, the regex pass would report
\* changed = false on the blob committed for it.
C26_CommitFreeOfRegexSecrets ==
    (runNo = 1 /\ pc \in {"push", "returned"} /\ Committed /\ NoWriteFailed)
        => \A q \in Paths :
              (/\ staged0[q] # NoFile
               /\ HeadTree(commits)[q] # NoFile
               /\ _is_probably_text(HeadTree(commits)[q].oid))
                 => ~_sanitize_text(HeadTree(commits)[q].oid).changed

\* C27: auto_commit never creates an empty commit: whenever it creates a
\* commit, the index it commits differs from the tree of the parent commit,
\* also when the sanitization made the staged content equal to HEAD's.
C27_NoEmptyCommit ==
    [][ Len(commits') > Len(commits)
            => /\ commits'[Len(commits')].tree = index
               /\ index # HeadTree(commits) ]_vars

\* C28: chunking terminates for every text and every positive
\* max_chars_per_call, the overlap being the fixed one: the starts of the
\* chunks produced increase strictly, so there are never more chunks than
\* the text has characters (one chunk for the empty text).
C28_ChunkingTerminates ==
    probe.f = "_chunk_text loop"
        => /\ \A k \in 2..Len(probe.out) :
                 probe.out[k - 1].base < probe.out[k].base
           /\ Len(probe.out) <= Max(1, Len(probe.s))

\* The file content in the request generate_commit_message sends: the
\* context files and the staged diff.
RequestContents == _collect_nearby_context(worktree) \cup _staged_patch(index, commits)

\* C29: no unredacted file content reaches the service through the
\* commit-message request: when the message service answers the request
\* with the message that is used, no file content of the request (staged
\* diff, context files) holds a secret the regex pass would redact.
C29_MessageRequestRedacted ==
    [][ ( /\ pc = "compose" /\ pc' = "commit"
          /\ _staged_name_status(index, commits, diffErr) # << >>
          /\ commit_message' # _fallback_commit_message(
                                    _staged_name_status(index, commits, diffErr),
                                    sanitized, llm_results) )
            => \A c \in RequestContents : ~ _sanitize_text(c).changed ]_vars

\* The run has replaced the staged content of path p.
Rewritten(p) ==
    /\ index[p] # NoFile /\ staged0[p] # NoFile
    /\ index[p].oid # staged0[p].oid

\* The paths the result message lists as files with redacted secrets.
ReportedSanitized ==
    UNION { Range(return_message[k].paths) :
              k \in { n \in DOMAIN return_message :
                        return_message[n].kind
                            \in {"regex_found", "llm_found", "llm_also"} } }

\* C30: every path a run reports as sanitized, in the result message or in
\* the set that makes the fallback subject security-scoped, had its staged
\* content replaced during that run; a file whose object creation or index
\* repoint failed is never reported.
C30_ReportedPathsWereRewritten ==
    /\ \A p \in ReportedSanitized : Rewritten(p)
    /\ ( /\ pc = "commit"
         /\ commit_message =
                _fallback_commit_message(
                    _staged_name_status(index, commits, diffErr),
                    sanitized, llm_results) )
           => \A p \in PathsOf(sanitized) \cup PathsOf(llm_results) :
                  Rewritten(p)

====
